---- MODULE Spec2Model ----
(***************************************************************************)
(* Portfolio tracker: JIRA merge-sync (js/modules/jira-sync.js) and the    *)
(* risk evaluator (js/modules/risk-detector.js) over the dual record store *)
(* (js/modules/database.js) and the in-memory state (js/modules/state.js). *)
(*                                                                         *)
(* JavaScript objects are TLA+ records whose DOMAIN is the set of          *)
(* properties that hold a value; a property that is missing, undefined or  *)
(* null is a field outside the DOMAIN.  Arrays are sequences.  A date      *)
(* string is a sequence: << >> is the empty string "" and <<d>> is the     *)
(* ISO string of day number d.  A JIRA status name is the sequence of its  *)
(* characters.                                                             *)
(***************************************************************************)
EXTENDS Integers, Sequences, FiniteSets, TLC

(***************************************************************************)
(* Bounds of the model.                                                    *)
(***************************************************************************)
MaxIssues == 3
MaxPasses == 1
MaxUserSaves == 1
MaxRoundTrips == 2
MaxInitiatives == 2
MaxClock == 12

(***************************************************************************)
(* Program constants.                                                      *)
(***************************************************************************)
DEFAULT_INITIATIVE_DURATION_DAYS == 30

\* the issue keys of the tracker, in the order the primary query lists them
IssueKeys == <<"P-1", "P-2", "P-3", "P-4", "P-5">>

(***************************************************************************)
(* JavaScript values.                                                      *)
(***************************************************************************)
Null == [isNull |-> TRUE]

EmptyObject == [f \in {} |-> TRUE]

Has(obj, f) == f \in DOMAIN obj

\* obj[f] is truthy: present and, for a string, non-empty (arrays are
\* always truthy, so this is used on string-valued properties only)
Truthy(obj, f) == Has(obj, f) /\ obj[f] # << >>

\* obj[f] || []
OrEmptyArray(obj, f) == IF Has(obj, f) THEN obj[f] ELSE << >>

\* { [to]: obj[from] } with an undefined value left out
Prop(obj, from, to) == IF Has(obj, from) THEN to :> obj[from] ELSE EmptyObject

Without(obj, fs) == [f \in DOMAIN obj \ fs |-> obj[f]]

Range(s) == {s[i] : i \in 1..Len(s)}

\* two objects agree on a property: both lack it or both hold one value
SameProp(a, b, f) == (Has(a, f) <=> Has(b, f)) /\ (Has(a, f) => a[f] = b[f])

\* [...new Set(s)]: first occurrences, in insertion order
RECURSIVE SetSpread(_)
SetSpread(s) ==
    IF s = << >> THEN << >>
    ELSE LET init == SetSpread(SubSeq(s, 1, Len(s) - 1))
             last == s[Len(s)]
         IN  IF last \in Range(init) THEN init ELSE Append(init, last)

UpperLetters ==
    <<"A", "B", "C", "D", "E", "F", "G", "H", "I", "J", "K", "L", "M",
      "N", "O", "P", "Q", "R", "S", "T", "U", "V", "W", "X", "Y", "Z">>

LowerLetters ==
    <<"a", "b", "c", "d", "e", "f", "g", "h", "i", "j", "k", "l", "m",
      "n", "o", "p", "q", "r", "s", "t", "u", "v", "w", "x", "y", "z">>

\* the lower-case letter of each capital
LowerOf ==
    [c \in Range(UpperLetters) |->
        LowerLetters[CHOOSE k \in 1..Len(UpperLetters) : UpperLetters[k] = c]]

\* String.prototype.toLowerCase on a string given as its characters
toLowerCase(s) ==
    [i \in 1..Len(s) |->
        IF s[i] \in DOMAIN LowerOf THEN LowerOf[s[i]] ELSE s[i]]

includes(s, sub) ==
    \E i \in 0..(Len(s) - Len(sub)) : SubSeq(s, i + 1, i + Len(sub)) = sub

(***************************************************************************)
(* database.js: the two record stores.                                     *)
(***************************************************************************)
transformToAppFormat(dbItem) ==
    Prop(dbItem, "id", "id") @@ Prop(dbItem, "name", "name")
    @@ Prop(dbItem, "owner", "owner") @@ Prop(dbItem, "status", "status")
    @@ Prop(dbItem, "start_date", "startDate")
    @@ Prop(dbItem, "target_date", "targetDate")
    @@ [categories |-> OrEmptyArray(dbItem, "categories"),
        tags |-> OrEmptyArray(dbItem, "tags"),
        phases |-> OrEmptyArray(dbItem, "phases"),
        keyInitiative |-> IF Has(dbItem, "key_initiative")
                          THEN dbItem.key_initiative ELSE "No"]
    @@ Prop(dbItem, "created_at", "created_at")
    @@ Prop(dbItem, "updated_at", "updated_at")

transformToDbFormat(initiative, now) ==
    Prop(initiative, "id", "id") @@ Prop(initiative, "name", "name")
    @@ Prop(initiative, "owner", "owner") @@ Prop(initiative, "status", "status")
    @@ Prop(initiative, "startDate", "start_date")
    @@ Prop(initiative, "targetDate", "target_date")
    @@ [categories |-> OrEmptyArray(initiative, "categories"),
        tags |-> OrEmptyArray(initiative, "tags"),
        phases |-> OrEmptyArray(initiative, "phases"),
        key_initiative |-> IF Has(initiative, "keyInitiative")
                           THEN initiative.keyInitiative ELSE "No",
        updated_at |-> now]

\* .upsert(dbFormat) on the initiatives table: the columns of the payload
\* are written, the other columns of an existing row are kept, and a new
\* row gets created_at from the column default NOW()
Upsert(row, dbFormat, now) ==
    IF row = Null THEN dbFormat @@ [created_at |-> now]
    ELSE dbFormat @@ row

\* mutant: the local backend stamps created_at on every save
LocalPut_restamps(initiative, now) ==
    [updated_at |-> now, created_at |-> now] @@ initiative

\* the object saveInitiative hands to store.put on the local backend
LocalPut(initiative, now) ==
    [updated_at |-> now]
    @@ (IF Has(initiative, "created_at") THEN EmptyObject
        ELSE [created_at |-> now])
    @@ initiative

\* the row that saveInitiative(initiative) leaves in the store
saveInitiative(supabase, row, initiative, now) ==
    IF supabase THEN Upsert(row, transformToDbFormat(initiative, now), now)
    ELSE LocalPut(initiative, now)

\* the value getInitiativeById resolves to for a stored row (or none)
getInitiativeById(supabase, row) ==
    IF row = Null THEN Null
    ELSE IF supabase THEN transformToAppFormat(row) ELSE row

\* the position of a key in the key order of the object store
KeyOrder(id) == CHOOSE i \in 1..Len(IssueKeys) : IssueKeys[i] = id

\* the ways to list the members of a set
Orderings(S) ==
    {o \in [1..Cardinality(S) -> S] :
        \A i, j \in 1..Cardinality(S) : i # j => o[i] # o[j]}

\* the arrays getAllInitiatives can resolve to: the rows by created_at,
\* latest first, on the cloud backend (rows of one instant in any
\* order), the objects by key on the local one
getAllInitiatives(supabase, rows) ==
    LET held == {id \in DOMAIN rows : rows[id] # Null}
        n == Cardinality(held)
    IN  IF supabase
        THEN {[i \in 1..n |-> transformToAppFormat(rows[o[i]])] :
                 o \in {p \in Orderings(held) :
                           \A i, j \in 1..n :
                               i < j => rows[p[i]].created_at
                                            >= rows[p[j]].created_at}}
        ELSE {[i \in 1..n |-> rows[o[i]]] :
                 o \in {p \in Orderings(held) :
                           \A i, j \in 1..n :
                               i < j => KeyOrder(p[i]) < KeyOrder(p[j])}}

\* the array getAllSnapshots resolves to.  A snapshot of the local store
\* holds its data as JSON text, [json |-> value] here; a row of the cloud
\* table holds the value, and the rows come latest first, each with its
\* id as text and its data made into JSON text
getAllSnapshots(supabase, rows) ==
    IF supabase
    THEN [i \in 1..Len(rows) |->
             LET item == rows[Len(rows) + 1 - i]
             IN  [id |-> [text |-> item.id], note |-> item.note,
                  data |-> [json |-> item.data],
                  created_at |-> item.created_at]]
    ELSE rows

(***************************************************************************)
(* state.js: the in-memory collection.                                     *)
(***************************************************************************)
\* mutant: the initiative is pushed whether or not its id is there
updateInitiativeInState_alwaysPushes(list, initiative) ==
    Append(list, initiative)

\* appState.initiatives after updateInitiativeInState(initiative): the
\* first entry with the id is replaced, or the initiative is pushed
updateInitiativeInState(list, initiative) ==
    LET found == {i \in 1..Len(list) : SameProp(list[i], initiative, "id")}
    IN  IF found # {}
        THEN [list EXCEPT ![CHOOSE i \in found : \A j \in found : i <= j] =
                  initiative]
        ELSE Append(list, initiative)

\* appState.initiatives after removeInitiativeFromState(id): the entries
\* whose id is not the id
removeInitiativeFromState(list, id) ==
    SelectSeq(list, LAMBDA i : ~(Has(i, "id") /\ i.id = id))

\* mutant of getFilteredInitiatives: the category filter is not applied
getFilteredInitiatives_ignoresCategory(list, f) ==
    LET statusTest(i) == Has(i, "status") /\ i.status = f.status
        searchTest(i) ==
            \/ includes(toLowerCase(i.name), toLowerCase(f.search))
            \/ /\ Truthy(i, "owner")
               /\ includes(toLowerCase(i.owner), toLowerCase(f.search))
        byStatus == IF f.status # "all" THEN SelectSeq(list, statusTest)
                    ELSE list
    IN  IF f.search # << >> THEN SelectSeq(byStatus, searchTest)
        ELSE byStatus

\* state.js, getFilteredInitiatives() on a collection and filters: a copy
\* of the array narrowed by the status filter, the category filter and the
\* search text, each applied when it is set; names, owners and the search
\* text are sequences of characters, and every initiative has a name
getFilteredInitiatives(list, f) ==
    LET statusTest(i) == Has(i, "status") /\ i.status = f.status
        categoryTest(i) ==
            Has(i, "categories") /\ f.category \in Range(i.categories)
        searchTest(i) ==
            \/ includes(toLowerCase(i.name), toLowerCase(f.search))
            \/ /\ Truthy(i, "owner")
               /\ includes(toLowerCase(i.owner), toLowerCase(f.search))
        byStatus == IF f.status # "all" THEN SelectSeq(list, statusTest)
                    ELSE list
        byCategory == IF f.category # "all"
                      THEN SelectSeq(byStatus, categoryTest)
                      ELSE byStatus
    IN  IF f.search # << >> THEN SelectSeq(byCategory, searchTest)
        ELSE byCategory

\* mutant: the history view filters as the dashboard view does
filterForView_filtersHistory(view, list, f, t) ==
    LET dashboardTest(i) ==
            /\ f.status = "all" \/ (Has(i, "status") /\ i.status = f.status)
            /\ \/ f.category = "all"
               \/ Has(i, "categories") /\ f.category \in Range(i.categories)
    IN  SelectSeq(list, dashboardTest)

\* the projection of the collection for a view (the function of the page
\* that takes a snapshot; its contract): the dashboard applies the status
\* filter and the category filter; the timeline applies its own filters,
\* all of them at once: text in the name, key initiatives only, text in
\* the owner, status among the checked ones, target date up to a bound; the
\* history view applies none
filterForView(view, list, f, t) ==
    LET dashboardTest(i) ==
            /\ f.status = "all" \/ (Has(i, "status") /\ i.status = f.status)
            /\ \/ f.category = "all"
               \/ Has(i, "categories") /\ f.category \in Range(i.categories)
        timelineTest(i) ==
            /\ \/ t.name = << >>
               \/ includes(toLowerCase(i.name), toLowerCase(t.name))
            /\ t.keyOnly => (Has(i, "keyInitiative") /\ i.keyInitiative = "Yes")
            /\ \/ t.owner = << >>
               \/ /\ Has(i, "owner")
                  /\ includes(toLowerCase(i.owner), toLowerCase(t.owner))
            /\ Has(i, "status") /\ i.status \in t.statuses
            /\ \/ t.targetBefore = << >>
               \/ /\ Truthy(i, "targetDate")
                  /\ i.targetDate[1] <= t.targetBefore[1]
    IN  CASE view = "dashboard" -> SelectSeq(list, dashboardTest)
          [] view = "timeline" -> SelectSeq(list, timelineTest)
          [] OTHER -> list

(***************************************************************************)
(* The relay: the two handlers of POST /api/export-data.  The body of a    *)
(* request holds initiatives as [kind, items]: kind is "array", with the   *)
(* elements in items, or what else the JSON value is; an element is an     *)
(* object or null (Null); a name or status is missing, "" or a text.       *)
(***************************************************************************)
\* !element.f of an object
Lacks(element, f) == ~Has(element, f) \/ element[f] = ""

\* res.status(400).json({success: false, error})
Rejected(error) ==
    [status |-> 400, body |-> [success |-> FALSE, error |-> error]]

\* the catch block: res.status(500).json({success: false, error})
Failed == [status |-> 500, body |-> [success |-> FALSE, error |-> "TypeError"]]

\* res.json({success: true, message, receivedCount})
Received(count) ==
    [status |-> 200,
     body |-> [success |-> TRUE, message |-> "Data received and logged.",
               receivedCount |-> count]]

\* !initiatives || !Array.isArray(initiatives)
NoArray(body) == ~Has(body, "initiatives") \/ body.initiatives.kind # "array"

\* the handler of the routes module: what it sends and what it has logged
\* and generated; reading a property of a null element throws
exportData(body) ==
    IF NoArray(body)
    THEN [response |-> Rejected("initiatives array required"), log |-> << >>]
    ELSE LET items == body.initiatives.items
             stops == {i \in 1..Len(items) :
                          \/ items[i] = Null
                          \/ Lacks(items[i], "name")
                          \/ Lacks(items[i], "status")}
             first == CHOOSE i \in stops : \A j \in stops : i <= j
         IN  IF Len(items) = 0
             THEN [response |-> Rejected("initiatives array cannot be empty"),
                   log |-> << >>]
             ELSE IF stops = {}
             THEN [response |-> Received(Len(items)),
                   log |-> <<"logPortfolioData", "generateEmailContent">>]
             ELSE IF items[first] = Null
             THEN [response |-> Failed, log |-> << >>]
             ELSE [response |-> Rejected("each initiative must have name and status"),
                   log |-> << >>]

\* the handler of email-scheduler.js: what it sends and what it has logged
\* and generated; the logging loop throws at a null element
postExportData(body) ==
    IF NoArray(body)
    THEN [response |-> Rejected("initiatives array required"), log |-> << >>]
    ELSE LET items == body.initiatives.items
         IN  IF \E i \in 1..Len(items) : items[i] = Null
             THEN [response |-> Failed, log |-> <<"log">>]
             ELSE [response |-> Received(Len(items)),
                   log |-> <<"log", "generateEmailContent">>]

(***************************************************************************)
(* jira-sync.js: mapping and merging.                                      *)
(***************************************************************************)
\* mutant: the rule of Risk is tried before the rule of Planned
mapJiraStatus_riskFirst(jiraStatus) ==
    LET statusLower == toLowerCase(jiraStatus)
    IN  IF \/ includes(statusLower, <<"d", "o", "n", "e">>)
           \/ includes(statusLower, <<"c", "l", "o", "s", "e", "d">>)
           \/ includes(statusLower, <<"c", "o", "m", "p", "l", "e", "t", "e">>)
        THEN "Completed"
        ELSE IF \/ includes(statusLower, <<"r", "i", "s", "k">>)
                \/ includes(statusLower, <<"b", "l", "o", "c", "k">>)
        THEN "Risk"
        ELSE IF \/ includes(statusLower, <<"p", "l", "a", "n">>)
                \/ includes(statusLower, <<"b", "a", "c", "k", "l", "o", "g">>)
        THEN "Planned"
        ELSE "Active"

mapJiraStatus(jiraStatus) ==
    LET statusLower == toLowerCase(jiraStatus)
    IN  IF \/ includes(statusLower, <<"d", "o", "n", "e">>)
           \/ includes(statusLower, <<"c", "l", "o", "s", "e", "d">>)
           \/ includes(statusLower, <<"c", "o", "m", "p", "l", "e", "t", "e">>)
        THEN "Completed"
        ELSE IF \/ includes(statusLower, <<"p", "l", "a", "n">>)
                \/ includes(statusLower, <<"b", "a", "c", "k", "l", "o", "g">>)
        THEN "Planned"
        ELSE IF \/ includes(statusLower, <<"r", "i", "s", "k">>)
                \/ includes(statusLower, <<"b", "l", "o", "c", "k">>)
        THEN "Risk"
        ELSE "Active"

\* an issue is [key, fields]; fields holds summary, created and, when set,
\* assignee (the display name), duedate, status (the name) and squad (the
\* value of the Technology Squad field, readable only through its field id)
mapJiraIssueToInitiative(issue, fieldIds, keyInitiativeKeys) ==
    LET fields == issue.fields
        status == IF Has(fields, "status") THEN mapJiraStatus(fields.status)
                  ELSE "Active"
        startDate == fields.created
        targetDate == IF Truthy(fields, "duedate") THEN fields.duedate
                      ELSE <<startDate[1] + DEFAULT_INITIATIVE_DURATION_DAYS>>
        categories == IF fieldIds.techSquadFieldId /\ Has(fields, "squad")
                      THEN <<fields.squad>> ELSE << >>
    IN  [id |-> issue.key,
         name |-> fields.summary,
         owner |-> IF Has(fields, "assignee") THEN fields.assignee
                   ELSE "Unassigned",
         keyInitiative |-> IF issue.key \in keyInitiativeKeys THEN "Yes" ELSE "No",
         status |-> status,
         startDate |-> startDate,
         targetDate |-> targetDate,
         categories |-> categories,
         tags |-> << >>,
         phases |-> << >>]

\* the object literal that merges an existing record into the JIRA data
Merged(jiraData, existingData) ==
    LET mergedCategories ==
            SetSpread(OrEmptyArray(existingData, "categories")
                      \o OrEmptyArray(jiraData, "categories"))
    IN  (IF Truthy(existingData, "startDate")
         THEN [startDate |-> existingData.startDate]
         ELSE Prop(jiraData, "startDate", "startDate"))
        @@ (IF Truthy(existingData, "targetDate")
            THEN [targetDate |-> existingData.targetDate]
            ELSE Prop(jiraData, "targetDate", "targetDate"))
        @@ [categories |-> mergedCategories,
            tags |-> OrEmptyArray(existingData, "tags"),
            phases |-> OrEmptyArray(existingData, "phases")]
        @@ Prop(existingData, "created_at", "created_at")
        @@ Without(jiraData, {"startDate", "targetDate", "created_at"})

\* mutant: tags and phases are taken from the JIRA data
mergeInitiativeData_jiraTags(jiraData, existingData) ==
    IF existingData = Null THEN jiraData
    ELSE [Merged(jiraData, existingData) EXCEPT !.tags = jiraData.tags,
                                                !.phases = jiraData.phases]

\* mutant: the two category lists are concatenated, not deduplicated
mergeInitiativeData_concat(jiraData, existingData) ==
    IF existingData = Null THEN jiraData
    ELSE [Merged(jiraData, existingData) EXCEPT !.categories =
              OrEmptyArray(existingData, "categories")
              \o OrEmptyArray(jiraData, "categories")]

\* mutant: no check for a missing existing record, so that reading
\* existingData.categories throws and no merged object is made
mergeInitiativeData_noNullCheck(jiraData, existingData) ==
    IF existingData = Null THEN Null
    ELSE Merged(jiraData, existingData)

\* mutant: an existing status wins over the status from JIRA
mergeInitiativeData_keepStatus(jiraData, existingData) ==
    IF existingData = Null THEN jiraData
    ELSE IF Has(existingData, "status")
    THEN [Merged(jiraData, existingData) EXCEPT !.status = existingData.status]
    ELSE Merged(jiraData, existingData)

\* mutant: an existing status of Risk wins over the status from JIRA
mergeInitiativeData_keepRisk(jiraData, existingData) ==
    IF existingData = Null THEN jiraData
    ELSE IF Has(existingData, "status") /\ existingData.status = "Risk"
    THEN [Merged(jiraData, existingData) EXCEPT !.status = "Risk"]
    ELSE Merged(jiraData, existingData)

\* mutant: the dates are taken from the JIRA data
mergeInitiativeData_jiraDates(jiraData, existingData) ==
    IF existingData = Null THEN jiraData
    ELSE [Merged(jiraData, existingData) EXCEPT
              !.startDate = jiraData.startDate,
              !.targetDate = jiraData.targetDate]

\* mutant: created_at is not carried over from the existing record
mergeInitiativeData_noCreatedAt(jiraData, existingData) ==
    IF existingData = Null THEN jiraData
    ELSE Without(Merged(jiraData, existingData), {"created_at"})

mergeInitiativeData(jiraData, existingData) ==
    IF existingData = Null THEN jiraData
    ELSE Merged(jiraData, existingData)

(***************************************************************************)
(* risk-detector.js: the risk evaluator.  Time is counted in days.         *)
(***************************************************************************)
APPROACHING_DEADLINE_DAYS == 5

\* new Date(obj[f]) is a valid date
ValidDate(obj, f) == Has(obj, f) /\ Len(obj[f]) = 1

\* phase.status !== 'completed'
NotCompleted(phase) == ~Has(phase, "status") \/ phase.status # "completed"

\* mutant: a phase that ends today is overdue already
isOverdue_orEqual(phase, now) ==
    /\ ValidDate(phase, "endDate")
    /\ phase.endDate[1] <= now
    /\ NotCompleted(phase)

\* endDate < now && phase.status !== 'completed'
isOverdue(phase, now) ==
    /\ ValidDate(phase, "endDate")
    /\ phase.endDate[1] < now
    /\ NotCompleted(phase)

\* endDate >= now && endDate <= approachingDeadline
\*     && phase.status !== 'completed'
isApproaching(phase, now) ==
    LET approachingDeadline == now + APPROACHING_DEADLINE_DAYS
    IN  /\ ValidDate(phase, "endDate")
        /\ phase.endDate[1] >= now
        /\ phase.endDate[1] <= approachingDeadline
        /\ NotCompleted(phase)

\* the entries pushed to overduePhases for the phases of an initiative
overduePhases(phases, now) ==
    LET Overdue(phase) == isOverdue(phase, now)
        found == SelectSeq(phases, Overdue)
    IN  [i \in 1..Len(found) |->
            Prop(found[i], "name", "name")
            @@ [endDate |-> found[i].endDate,
                daysOverdue |-> now - found[i].endDate[1]]]

\* the entries pushed to approachingPhases for the phases of an initiative
approachingPhases(phases, now) ==
    LET Approaching(phase) == isApproaching(phase, now)
        found == SelectSeq(phases, Approaching)
    IN  [i \in 1..Len(found) |->
            Prop(found[i], "name", "name")
            @@ [endDate |-> found[i].endDate,
                daysUntil |-> found[i].endDate[1] - now]]

\* mutant: an initiative already at Risk is set to Risk and counted again
flipsToRisk_countsRisk(initiative, hasOverduePhase) ==
    /\ hasOverduePhase
    /\ (~Has(initiative, "status") \/ initiative.status # "Completed")

\* mutant: a completed initiative with an overdue phase is flipped too
flipsToRisk_flipsCompleted(initiative, hasOverduePhase) ==
    /\ hasOverduePhase
    /\ (~Has(initiative, "status") \/ initiative.status # "Risk")

\* hasOverduePhase && initiative.status !== 'Risk'
\*     && initiative.status !== 'Completed'
flipsToRisk(initiative, hasOverduePhase) ==
    /\ hasOverduePhase
    /\ (~Has(initiative, "status") \/ initiative.status # "Risk")
    /\ (~Has(initiative, "status") \/ initiative.status # "Completed")

\* the body of the forEach of detectRisks for one initiative: the
\* initiative as it leaves it, whether it was counted, and its warning
evaluate(initiative, now) ==
    IF ~Has(initiative, "phases") \/ Len(initiative.phases) = 0
    THEN [initiative |-> initiative, updated |-> FALSE, warned |-> FALSE]
    ELSE LET overdue == overduePhases(initiative.phases, now)
             approaching == approachingPhases(initiative.phases, now)
             hasOverduePhase == Len(overdue) > 0
             hasApproachingDeadline == Len(approaching) > 0
             flips == flipsToRisk(initiative, hasOverduePhase)
             flipped == IF flips
                        THEN [status |-> "Risk"] @@ ("_autoRisk" :> TRUE)
                             @@ initiative
                        ELSE initiative
             marked == IF hasOverduePhase \/ hasApproachingDeadline
                       THEN ("_riskInfo" :>
                                [hasOverduePhase |-> hasOverduePhase,
                                 hasApproachingDeadline |-> hasApproachingDeadline,
                                 overduePhases |-> overdue,
                                 approachingPhases |-> approaching])
                            @@ flipped
                       ELSE Without(flipped, {"_riskInfo"})
         IN  [initiative |-> marked, updated |-> flips,
              warned |-> hasOverduePhase \/ hasApproachingDeadline,
              overduePhases |-> overdue, approachingPhases |-> approaching]

\* detectRisks over the first n initiatives of the array: the array as
\* the forEach leaves it, the counter and the warnings (each names its
\* initiative by its position in the array)
RECURSIVE detectRisksUpTo(_, _, _)
detectRisksUpTo(list, n, now) ==
    IF n = 0
    THEN [initiatives |-> list, autoUpdatedCount |-> 0, warnings |-> << >>]
    ELSE LET sofar == detectRisksUpTo(list, n - 1, now)
             this == evaluate(list[n], now)
         IN  [initiatives |-> [sofar.initiatives EXCEPT ![n] = this.initiative],
              autoUpdatedCount |->
                  IF this.updated THEN sofar.autoUpdatedCount + 1
                  ELSE sofar.autoUpdatedCount,
              warnings |->
                  IF this.warned
                  THEN Append(sofar.warnings,
                              [initiative |-> n,
                               overduePhases |-> this.overduePhases,
                               approachingPhases |-> this.approachingPhases])
                  ELSE sofar.warnings]

detectRisks(list, now) == detectRisksUpTo(list, Len(list), now)

(***************************************************************************)
(* The environment: what the tracker can answer and what a user can save.  *)
(***************************************************************************)
Ids == SubSeq(IssueKeys, 1, MaxIssues)

IdSet == Range(Ids)

InProgress == <<"I", "n", " ", "P", "r", "o", "g", "r", "e", "s", "s">>
Done == <<"D", "o", "n", "e">>
AtRisk == <<"A", "t", " ", "R", "i", "s", "k">>

\* the answer of the tracker for the issue with a key in a full sync pass
IssueFields(key) ==
    IF key = Ids[1]
    THEN [summary |-> "New", created |-> <<10>>, status |-> Done,
          assignee |-> "Ann", duedate |-> <<50>>, squad |-> "Plat"]
    ELSE [summary |-> "New", created |-> <<10>>, status |-> InProgress]

\* the answers of the secondary query in a full sync pass: no issue, or
\* one of the primary query and one outside it
KeySets == {{}, {Ids[1], IssueKeys[MaxIssues + 1]}}

\* the answers of resolveJiraFields
FieldIds == {[keyInitiativeFieldId |-> b, techSquadFieldId |-> b] : b \in BOOLEAN}

\* the answers of the tracker for the issue of a single round trip
RoundTripIssueFields ==
    { st @@ due @@ sq @@ [summary |-> "New", created |-> <<10>>] :
        st \in {EmptyObject, [status |-> Done, assignee |-> "Ann"]},
        due \in {EmptyObject, [duedate |-> <<50>>]},
        sq \in {EmptyObject, [squad |-> "Plat"]} }
    \cup {[summary |-> "New", created |-> <<10>>, status |-> AtRisk]}

Phase1 == [name |-> "Plan", startDate |-> <<1>>, endDate |-> <<5>>, status |-> "open"]

\* what a user saves for an initiative in a full sync pass: a record
\* with every field set (the single round trip has the partial ones)
UserRecords(id) ==
    { [id |-> id, name |-> "Old", owner |-> "Bob", status |-> "Risk",
       keyInitiative |-> "Yes", startDate |-> <<1>>, targetDate |-> <<2>>,
       categories |-> <<"Custom">>, tags |-> <<"urgent">>,
       phases |-> <<Phase1>>] }

\* what a user has saved for the initiative of a single round trip
RoundTripUserRecords ==
    { st @@ sd @@ td @@ cat @@ tp
      @@ [id |-> Ids[1], name |-> "Old", owner |-> "Bob"] :
        st \in {[status |-> "Risk", keyInitiative |-> "Yes"],
                [status |-> "Planned"]},
        sd \in {EmptyObject, [startDate |-> << >>], [startDate |-> <<1>>]},
        td \in {EmptyObject, [targetDate |-> << >>], [targetDate |-> <<2>>]},
        cat \in {EmptyObject, [categories |-> <<"Custom">>],
                 [categories |-> <<"Custom", "Plat">>],
                 [categories |-> <<"Plat", "Plat">>]},
        tp \in {EmptyObject, [tags |-> << >>],
                [tags |-> <<"urgent">>, phases |-> <<Phase1>>]} }

(***************************************************************************)
(* State.                                                                  *)
(***************************************************************************)
VARIABLES
    useSupabase,        \* database.js: which backend is in use
    db,                 \* the initiatives table / object store: id -> row
    now,                \* the clock read by new Date()
    pc,                 \* where syncFromJira is
    fieldIds,           \* syncFromJira: the resolved field ids
    issues,             \* syncFromJira: the issues of the primary query
    keyInitiativeKeys,  \* syncFromJira: the key set of the secondary query
    mappedInitiatives,  \* syncFromJira: the mapped issues
    idx,                \* syncFromJira: position of the loop over them
    existingItem,       \* syncFromJira: what getInitiativeById resolved to
    mergedItem,         \* syncFromJira: what is handed to saveInitiative
    syncedCount,        \* syncFromJira: the counter
    progress,           \* the (message, color) calls of onProgress
    outcome,            \* how the promise of syncFromJira settled
    calls,              \* the tracker and store calls of this pass, in
                        \* order, each with how it settled
    passes,             \* sync passes started
    userSaves,          \* user saves done
    repeated,           \* the tracker answers this pass as it answered the
                        \* pass before, which saved the record (single
                        \* round trip only)
    userSaved,          \* what the user last saved for each id since the
                        \* start, if anything
    initiatives,        \* state.js: appState.initiatives
    riskPc,             \* where saveRiskDetection is
    riskList,           \* saveRiskDetection: the array it was called with
    riskShared,         \* that array is still appState.initiatives
    riskIdx,            \* saveRiskDetection: position of its loop
    riskResult,         \* saveRiskDetection: what detectRisks returned
    riskCalls,          \* the saveInitiative calls of this evaluation pass,
                        \* in order, each with how it settled
    riskFlipped,        \* the positions whose status this pass changed
    filters,            \* state.js: appState.filters
    filtered,           \* [returned |-> what the last call for the
                        \* projection returned under these filters and
                        \* this view], or none
    activeView,         \* state.js: appState.activeView
    timelineFilters,    \* the filters of the timeline view
    request,            \* the relay: the body of the request being
                        \* handled, or none
    response,           \* the relay: the status and the JSON sent back
    indexedDb,          \* database.js: the IndexedDB database, its object
                        \* stores initiatives (id -> object) and snapshots
    supabase,           \* the Supabase project, its tables initiatives
                        \* (id -> row) and snapshots
    answer,             \* what the last store call resolved to on each of
                        \* the two backends, or none
    migration,          \* where migrateToSupabase is, with its locals
    detection,          \* startRiskDetection: the interval timer, the passes
                        \* in flight and, in order, what the passes have
                        \* read and called
    relayLog            \* the relay: what the handler of this request
                        \* has logged and generated

riskVars == <<initiatives, riskPc, riskList, riskShared, riskIdx, riskResult,
              riskCalls, riskFlipped>>

viewVars == <<filters, filtered, activeView, timelineFilters>>

relayVars == <<request, response, relayLog>>

\* the state of the parts that stand apart from the tracker's page
backendVars == <<indexedDb, supabase, answer, migration>>

auxVars == <<relayVars, backendVars, detection>>


vars == <<useSupabase, db, now, pc, fieldIds, issues, keyInitiativeKeys,
          mappedInitiatives, idx, existingItem, mergedItem, syncedCount,
          progress, outcome, calls, passes, userSaves, repeated, userSaved,
          riskVars, viewVars, auxVars>>

syncLocals == <<fieldIds, issues, keyInitiativeKeys, mappedInitiatives, idx,
                existingItem, mergedItem, syncedCount>>

\* the state of the tracker's page
coreVars == <<useSupabase, db, now, pc, syncLocals, progress, outcome, calls,
              passes, userSaves, repeated, userSaved, riskVars, viewVars>>

Msg(text, color) == [text |-> text, color |-> color]

Pending == [kind |-> "pending"]

Thrown == [kind |-> "thrown"]

Returned(synced, keyInitiatives) ==
    [kind |-> "returned", synced |-> synced, keyInitiatives |-> keyInitiatives]

NoFieldIds == [keyInitiativeFieldId |-> FALSE, techSquadFieldId |-> FALSE]

\* no evaluation pass has run and nothing is loaded
RiskIdle ==
    /\ initiatives = << >>
    /\ riskPc = "idle"
    /\ riskList = << >>
    /\ riskShared = FALSE
    /\ riskIdx = 0
    /\ riskResult = Null
    /\ riskCalls = << >>
    /\ riskFlipped = {}

\* the relay has no request
RelayIdle ==
    /\ request = Null
    /\ response = Null
    /\ relayLog = << >>

\* a database with nothing in it
EmptyDatabase == [initiatives |-> [id \in IdSet |-> Null], snapshots |-> << >>]

\* both backends empty, no store call and no migration yet
BackendsIdle ==
    /\ indexedDb = EmptyDatabase
    /\ supabase = EmptyDatabase
    /\ answer = Null
    /\ migration = [pc |-> "idle"]

\* startRiskDetection has not been called
DetectionIdle ==
    detection = [interval |-> "none", stopped |-> FALSE, ticks |-> 0,
                 running |-> << >>, events |-> << >>]

\* the timeline view with no filter set: no text, every status checked,
\* no bound on the target date
NoTimelineFilters ==
    [name |-> << >>, keyOnly |-> FALSE, owner |-> << >>,
     statuses |-> {"Active", "Risk", "Planned", "Completed"},
     targetBefore |-> << >>]

\* the filters of a fresh appState, and no projection asked for yet
ViewIdle ==
    /\ filters = [status |-> "all", category |-> "all", search |-> << >>]
    /\ filtered = Null
    /\ activeView = "dashboard"
    /\ timelineFilters = NoTimelineFilters
    /\ RelayIdle
    /\ BackendsIdle
    /\ DetectionIdle

Init ==
    /\ ViewIdle
    /\ useSupabase \in BOOLEAN
    /\ db = [id \in IdSet |-> Null]
    /\ now = 1
    /\ pc = "idle"
    /\ fieldIds = NoFieldIds
    /\ issues = << >>
    /\ keyInitiativeKeys = {}
    /\ mappedInitiatives = << >>
    /\ idx = 0
    /\ existingItem = Null
    /\ mergedItem = Null
    /\ syncedCount = 0
    /\ progress = << >>
    /\ outcome = Pending
    /\ calls = << >>
    /\ passes = 0
    /\ userSaves = 0
    /\ repeated = FALSE
    /\ userSaved = [id \in IdSet |-> Null]
    /\ RiskIdle

(***************************************************************************)
(* syncFromJira, one action per await.                                     *)
(***************************************************************************)
\* mutant: the catch block reports the error and does not rethrow it
SyncAbort_swallows ==
    /\ progress' = Append(progress, Msg("Failed", "error"))
    /\ outcome' = [kind |-> "returned", synced |-> 0, keyInitiatives |-> 0]
    /\ pc' = "done"

\* the catch block of syncFromJira
SyncAbort ==
    /\ progress' = Append(progress, Msg("Failed", "error"))
    /\ outcome' = Thrown
    /\ pc' = "done"

\* the call: credentials check, then the request of resolveJiraFields
SyncStart(credentialsOk) ==
    /\ pc = "idle"
    /\ passes < MaxPasses
    /\ passes' = passes + 1
    /\ calls' = << >>
    /\ fieldIds' = NoFieldIds
    /\ issues' = << >>
    /\ keyInitiativeKeys' = {}
    /\ mappedInitiatives' = << >>
    /\ idx' = 0
    /\ existingItem' = Null
    /\ mergedItem' = Null
    /\ syncedCount' = 0
    /\ IF credentialsOk
       THEN /\ progress' = <<Msg("Resolving JIRA fields...", "muted")>>
            /\ outcome' = Pending
            /\ pc' = "resolve"
       ELSE /\ progress' = << >>
            /\ outcome' = Thrown
            /\ pc' = "done"
    /\ UNCHANGED <<auxVars, viewVars, riskVars, userSaved, useSupabase, db, now, userSaves, repeated>>

\* resolveJiraFields settles
SyncResolve(ok, ids) ==
    /\ pc = "resolve"
    /\ calls' = Append(calls, [op |-> "resolve", ok |-> ok])
    /\ IF ok
       THEN /\ fieldIds' = ids
            /\ progress' = Append(progress, Msg("Fetching JIRA data...", "muted"))
            /\ pc' = "fetch"
            /\ UNCHANGED outcome
       ELSE /\ SyncAbort
            /\ UNCHANGED fieldIds
    /\ UNCHANGED <<auxVars, viewVars, riskVars, userSaved, useSupabase, db, now, issues, keyInitiativeKeys,
                   mappedInitiatives, idx, existingItem, mergedItem,
                   syncedCount, passes, userSaves,
                   repeated>>

\* mutant: an empty answer of the primary query is thrown as an error
SyncFetch_emptyIsError(ok, found) ==
    /\ pc = "fetch"
    /\ calls' = Append(calls, IF ok THEN [op |-> "fetch", ok |-> ok, n |-> Len(found)]
                              ELSE [op |-> "fetch", ok |-> ok])
    /\ IF ~ok \/ Len(found) = 0
       THEN /\ SyncAbort
            /\ UNCHANGED issues
       ELSE /\ issues' = found
            /\ progress' = Append(progress,
                    Msg("Identifying key initiatives...", "muted"))
            /\ pc' = "keys"
            /\ UNCHANGED outcome
    /\ UNCHANGED <<auxVars, viewVars, riskVars, userSaved, useSupabase, db, now, fieldIds, keyInitiativeKeys,
                   mappedInitiatives, idx, existingItem, mergedItem,
                   syncedCount, passes, userSaves, repeated>>

\* the primary fetchJiraIssues settles
SyncFetch(ok, found) ==
    /\ pc = "fetch"
    /\ calls' = Append(calls, IF ok THEN [op |-> "fetch", ok |-> ok, n |-> Len(found)]
                              ELSE [op |-> "fetch", ok |-> ok])
    /\ IF ~ok
       THEN /\ SyncAbort
            /\ UNCHANGED issues
       ELSE /\ issues' = found
            /\ IF Len(found) = 0
               THEN /\ progress' = Append(progress,
                                          Msg("No issues found", "warning"))
                    /\ outcome' = Returned(0, 0)
                    /\ pc' = "done"
               ELSE /\ progress' = Append(progress,
                            Msg("Identifying key initiatives...", "muted"))
                    /\ pc' = "keys"
                    /\ UNCHANGED outcome
    /\ UNCHANGED <<auxVars, viewVars, riskVars, userSaved, useSupabase, db, now, fieldIds, keyInitiativeKeys,
                   mappedInitiatives, idx, existingItem, mergedItem,
                   syncedCount, passes, userSaves,
                   repeated>>

\* the set fetchKeyInitiativeKeys resolves to when its query is answered
\* with the issues of a key set, or is rejected
fetchKeyInitiativeKeys(ok, found) == IF ok THEN found ELSE {}

\* mutant: a rejected secondary query is rethrown
SyncKeys_rethrows(ok, found) ==
    /\ pc = "keys"
    /\ calls' = Append(calls, [op |-> "keys", ok |-> ok])
    /\ IF ok
       THEN /\ keyInitiativeKeys' = found
            /\ mappedInitiatives' =
                   [i \in 1..Len(issues) |->
                       mapJiraIssueToInitiative(issues[i], fieldIds, found)]
            /\ progress' = progress \o <<Msg("Processing JIRA data...", "muted"),
                                         Msg("Saving to database...", "muted")>>
            /\ syncedCount' = 0
            /\ idx' = 1
            /\ pc' = "get"
            /\ UNCHANGED outcome
       ELSE /\ SyncAbort
            /\ UNCHANGED <<keyInitiativeKeys, mappedInitiatives, syncedCount, idx>>
    /\ UNCHANGED <<auxVars, viewVars, riskVars, userSaved, useSupabase, db, now, fieldIds, issues, existingItem,
                   mergedItem, passes, userSaves, repeated>>

\* fetchKeyInitiativeKeys settles; the issues are mapped and the loop
\* asks for the first existing record
SyncKeys(ok, found) ==
    /\ pc = "keys"
    /\ calls' = Append(calls, [op |-> "keys", ok |-> ok])
    /\ keyInitiativeKeys' = fetchKeyInitiativeKeys(ok, found)
    /\ mappedInitiatives' =
           [i \in 1..Len(issues) |->
               mapJiraIssueToInitiative(issues[i], fieldIds, keyInitiativeKeys')]
    /\ progress' = progress \o <<Msg("Processing JIRA data...", "muted"),
                                 Msg("Saving to database...", "muted")>>
    /\ syncedCount' = 0
    /\ idx' = 1
    /\ pc' = "get"
    /\ UNCHANGED <<auxVars, viewVars, riskVars, userSaved, useSupabase, db, now, fieldIds, issues, existingItem,
                   mergedItem, outcome, passes, userSaves, repeated>>

\* the end of one iteration: the next record, or the success message
\* and the return
SyncAdvance(count) ==
    /\ syncedCount' = count
    /\ IF idx < Len(mappedInitiatives)
       THEN /\ idx' = idx + 1
            /\ pc' = "get"
            /\ UNCHANGED <<progress, outcome>>
       ELSE /\ progress' = Append(progress,
                [text |-> "Success!", color |-> "success", synced |-> count,
                 keyInitiatives |-> Cardinality(keyInitiativeKeys)])
            /\ outcome' = Returned(count, Cardinality(keyInitiativeKeys))
            /\ pc' = "done"
            /\ UNCHANGED idx

\* mutant: a rejected getInitiativeById is not caught inside the loop
SyncGet_abortsOnFailure(ok) ==
    /\ pc = "get"
    /\ LET item == mappedInitiatives[idx]
       IN  /\ calls' = Append(calls, [op |-> "get", id |-> item.id, ok |-> ok])
           /\ IF ok
              THEN /\ existingItem' = getInitiativeById(useSupabase, db[item.id])
                   /\ mergedItem' = mergeInitiativeData(item, existingItem')
                   /\ pc' = "save"
                   /\ UNCHANGED <<idx, syncedCount, progress, outcome>>
              ELSE /\ SyncAbort
                   /\ UNCHANGED <<idx, syncedCount, existingItem, mergedItem>>
    /\ UNCHANGED <<auxVars, viewVars, riskVars, userSaved, useSupabase, db, now, fieldIds, issues, keyInitiativeKeys,
                   mappedInitiatives, passes, userSaves, repeated>>

\* getInitiativeById settles; on success the record is merged and
\* saveInitiative is called with the result
SyncGet(ok) ==
    /\ pc = "get"
    /\ LET jiraItem == mappedInitiatives[idx]
       IN  /\ calls' = Append(calls, [op |-> "get", id |-> jiraItem.id, ok |-> ok])
           /\ IF ok
              THEN /\ existingItem' = getInitiativeById(useSupabase, db[jiraItem.id])
                   /\ mergedItem' = mergeInitiativeData(jiraItem, existingItem')
                   /\ pc' = "save"
                   /\ UNCHANGED <<idx, syncedCount, progress, outcome>>
              ELSE /\ SyncAdvance(syncedCount)
                   /\ UNCHANGED <<existingItem, mergedItem>>
    /\ UNCHANGED <<auxVars, viewVars, riskVars, userSaved, useSupabase, db, now, fieldIds, issues, keyInitiativeKeys,
                   mappedInitiatives, passes, userSaves,
                   repeated>>

\* mutant: the save of a pass also removes the records that the primary
\* query did not list
SyncSave_prunes(ok) ==
    /\ pc = "save"
    /\ calls' = Append(calls, [op |-> "save", id |-> mergedItem.id, ok |-> ok])
    /\ IF ok
       THEN /\ db' = [id \in IdSet |->
                         IF id = mergedItem.id
                         THEN saveInitiative(useSupabase, db[id], mergedItem, now)
                         ELSE IF \E i \in 1..Len(issues) : issues[i].key = id
                         THEN db[id]
                         ELSE Null]
            /\ now' = now + 1
            /\ SyncAdvance(syncedCount + 1)
       ELSE /\ SyncAdvance(syncedCount)
            /\ UNCHANGED <<db, now>>
    /\ UNCHANGED <<auxVars, viewVars, riskVars, userSaved, useSupabase, fieldIds, issues, keyInitiativeKeys,
                   mappedInitiatives, existingItem, mergedItem,
                   passes, userSaves, repeated>>

\* saveInitiative settles
SyncSave(ok) ==
    /\ pc = "save"
    /\ calls' = Append(calls, [op |-> "save", id |-> mergedItem.id, ok |-> ok])
    /\ IF ok
       THEN /\ db' = [db EXCEPT ![mergedItem.id] =
                         saveInitiative(useSupabase, @, mergedItem, now)]
            /\ now' = now + 1
            /\ SyncAdvance(syncedCount + 1)
       ELSE /\ SyncAdvance(syncedCount)
            /\ UNCHANGED <<db, now>>
    /\ UNCHANGED <<auxVars, viewVars, riskVars, userSaved, useSupabase, fieldIds, issues, keyInitiativeKeys,
                   mappedInitiatives, existingItem, mergedItem,
                   passes, userSaves, repeated>>

\* the caller has the result and may sync again
SyncReturn ==
    /\ pc = "done"
    /\ pc' = "idle"
    /\ UNCHANGED <<auxVars, viewVars, riskVars, userSaved, useSupabase, db, now, syncLocals, progress, outcome, calls,
                   passes, userSaves, repeated>>

\* a user saves an initiative: saveInitiative, which stamps the object
\* on the local backend, and updateInitiativeInState on the array that a
\* running evaluation pass may be iterating
UserSave(initiative) ==
    /\ userSaves < MaxUserSaves
    /\ userSaves' = userSaves + 1
    /\ db' = [db EXCEPT ![initiative.id] =
                 saveInitiative(useSupabase, @, initiative, now)]
    /\ now' = now + 1
    /\ userSaved' = [userSaved EXCEPT ![initiative.id] = initiative]
    /\ initiatives' = updateInitiativeInState(initiatives,
                          IF useSupabase THEN initiative
                          ELSE LocalPut(initiative, now))
    /\ riskList' = IF riskShared THEN initiatives' ELSE riskList
    /\ UNCHANGED <<auxVars, viewVars, useSupabase, pc, syncLocals, progress, outcome, calls,
                   passes, repeated, riskPc, riskShared, riskIdx, riskResult,
                   riskCalls, riskFlipped>>

\* the issue lists the primary query can answer with
IssueLists ==
    { [i \in 1..n |-> [key |-> Ids[i], fields |-> IssueFields(Ids[i])]] :
      n \in 0..MaxIssues }

Next ==
    \/ \E credentialsOk \in BOOLEAN : SyncStart(credentialsOk)
    \/ \E ok \in BOOLEAN, ids \in FieldIds : SyncResolve(ok, ids)
    \/ \E ok \in BOOLEAN, found \in IssueLists : SyncFetch(ok, found)
    \/ \E ok \in BOOLEAN, found \in KeySets : SyncKeys(ok, found)
    \/ \E ok \in BOOLEAN : SyncGet(ok)
    \/ \E ok \in BOOLEAN : SyncSave(ok)
    \/ SyncReturn
    \/ \E initiative \in UserRecords(Ids[MaxIssues]) : UserSave(initiative)

Spec == Init /\ [][Next]_vars

(***************************************************************************)
(* A single round trip: the loop of syncFromJira over one issue, pass      *)
(* after pass, with the issue and the stored record drawn from all the     *)
(* shapes the tracker and a user can give them.                            *)
(***************************************************************************)
\* syncFromJira from its call to the first getInitiativeById, for a
\* tracker that answers every query and lists the one issue: the values
\* of its locals, its progress calls and its promise
LoopEntry(fields, keys, ids) ==
    LET issue == [key |-> Ids[1], fields |-> fields]
    IN  [pc |-> "get",
         fieldIds |-> ids,
         issues |-> <<issue>>,
         keyInitiativeKeys |-> keys,
         mappedInitiatives |-> <<mapJiraIssueToInitiative(issue, ids, keys)>>,
         progress |-> <<Msg("Resolving JIRA fields...", "muted"),
                        Msg("Fetching JIRA data...", "muted"),
                        Msg("Identifying key initiatives...", "muted"),
                        Msg("Processing JIRA data...", "muted"),
                        Msg("Saving to database...", "muted")>>,
         calls |-> <<[op |-> "resolve", ok |-> TRUE],
                     [op |-> "fetch", ok |-> TRUE, n |-> 1],
                     [op |-> "keys", ok |-> TRUE]>>]

AllFieldIds == [keyInitiativeFieldId |-> TRUE, techSquadFieldId |-> TRUE]

InitRoundTrip ==
    /\ ViewIdle
    /\ useSupabase \in BOOLEAN
    /\ \E initiative \in RoundTripUserRecords \cup {Null} :
           /\ db = [id \in IdSet |->
                       IF id = Ids[1] /\ initiative # Null
                       THEN saveInitiative(useSupabase, Null, initiative, 1)
                       ELSE Null]
    /\ userSaved = [id \in IdSet |-> Null]
    /\ now = 2
    /\ \E fields \in RoundTripIssueFields, keys \in {{}, {Ids[1]}} :
           LET entry == LoopEntry(fields, keys, AllFieldIds)
           IN  /\ pc = entry.pc
               /\ fieldIds = entry.fieldIds
               /\ issues = entry.issues
               /\ keyInitiativeKeys = entry.keyInitiativeKeys
               /\ mappedInitiatives = entry.mappedInitiatives
               /\ progress = entry.progress
               /\ calls = entry.calls
    /\ idx = 1
    /\ existingItem = Null
    /\ mergedItem = Null
    /\ syncedCount = 0
    /\ outcome = Pending
    /\ passes = 1
    /\ userSaves = 0
    /\ repeated = FALSE
    /\ RiskIdle

\* the next pass, up to its first getInitiativeById
RoundTripAgain(fields, keys) ==
    /\ pc = "done"
    /\ passes < MaxRoundTrips
    /\ passes' = passes + 1
    /\ LET entry == LoopEntry(fields, keys, AllFieldIds)
       IN  /\ pc' = entry.pc
           /\ fieldIds' = entry.fieldIds
           /\ issues' = entry.issues
           /\ keyInitiativeKeys' = entry.keyInitiativeKeys
           /\ mappedInitiatives' = entry.mappedInitiatives
           /\ progress' = entry.progress
           /\ calls' = entry.calls
           /\ repeated' = /\ entry.mappedInitiatives = mappedInitiatives
                          /\ outcome.synced = 1
    /\ idx' = 1
    /\ existingItem' = Null
    /\ mergedItem' = Null
    /\ syncedCount' = 0
    /\ outcome' = Pending
    /\ UNCHANGED <<auxVars, viewVars, riskVars, userSaved, useSupabase, db, now, userSaves>>

NextRoundTrip ==
    \/ \E ok \in BOOLEAN : SyncGet(ok)
    \/ \E ok \in BOOLEAN : SyncSave(ok)
    \/ \E fields \in RoundTripIssueFields, keys \in {{}, {Ids[1]}} :
           RoundTripAgain(fields, keys)

SpecRoundTrip == InitRoundTrip /\ [][NextRoundTrip]_vars

(***************************************************************************)
(* The risk evaluator: saveRiskDetection over appState.initiatives, one    *)
(* action per await, and the reload of the collection.                     *)
(***************************************************************************)
\* the positions from a position on whose initiative has _autoRisk set
Marked(list, from) ==
    {i \in from..Len(list) : Has(list[i], "_autoRisk") /\ list[i]["_autoRisk"]}

Least(S) == CHOOSE i \in S : \A j \in S : i <= j

\* a pass starts: getInitiatives(), detectRisks on that array, and the
\* loop of saveRiskDetection up to its first saveInitiative
RiskStart ==
    /\ riskPc = "idle"
    /\ LET result == detectRisks(initiatives, now)
       IN  /\ initiatives' = result.initiatives
           /\ riskList' = result.initiatives
           /\ riskShared' = TRUE
           /\ riskResult' = [autoUpdatedCount |-> result.autoUpdatedCount,
                             warnings |-> result.warnings]
           /\ riskCalls' = << >>
           /\ riskFlipped' =
                  {i \in 1..Len(initiatives) :
                      ~SameProp(initiatives[i], result.initiatives[i], "status")}
           /\ IF result.autoUpdatedCount > 0
                 /\ Marked(result.initiatives, 1) # {}
              THEN /\ riskPc' = "save"
                   /\ riskIdx' = 1
              ELSE /\ riskPc' = "done"
                   /\ riskIdx' = 0
    /\ UNCHANGED <<auxVars, viewVars, useSupabase, db, now, pc, syncLocals, progress, outcome,
                   calls, passes, userSaves, repeated, userSaved>>

\* the loop of saveRiskDetection goes on from where it is to the next
\* initiative with _autoRisk and its saveInitiative settles, or it finds
\* none; the local backend has stamped the object it was handed, and the
\* marker is deleted after a save that succeeded
RiskSave(ok) ==
    /\ riskPc = "save"
    /\ IF Marked(riskList, riskIdx) = {}
       THEN /\ riskPc' = "done"
            /\ UNCHANGED <<db, now, initiatives, riskList, riskIdx, riskCalls>>
       ELSE LET at == Least(Marked(riskList, riskIdx))
                initiative == riskList[at]
                handed == IF useSupabase THEN initiative
                          ELSE LocalPut(initiative, now)
                kept == IF ok THEN Without(handed, {"_autoRisk"}) ELSE handed
                list == [riskList EXCEPT ![at] = kept]
            IN  /\ riskCalls' = Append(riskCalls,
                                       [id |-> initiative.id, ok |-> ok])
                /\ riskList' = list
                /\ initiatives' = IF riskShared THEN list ELSE initiatives
                /\ ok => now < MaxClock
                /\ IF ok
                   THEN /\ db' = [db EXCEPT ![initiative.id] =
                                     saveInitiative(useSupabase, @, initiative,
                                                    now)]
                        /\ now' = now + 1
                   ELSE UNCHANGED <<db, now>>
                /\ riskIdx' = at + 1
                /\ riskPc' = IF Marked(list, at + 1) # {} THEN "save" ELSE "done"
    /\ UNCHANGED <<auxVars, viewVars, useSupabase, pc, syncLocals, progress, outcome, calls,
                   passes, userSaves, repeated, userSaved, riskShared,
                   riskResult, riskFlipped>>

\* saveRiskDetection returns its result, and its locals are gone
RiskReturn ==
    /\ riskPc = "done"
    /\ riskPc' = "idle"
    /\ riskList' = << >>
    /\ riskShared' = FALSE
    /\ riskIdx' = 0
    /\ riskResult' = Null
    /\ riskCalls' = << >>
    /\ riskFlipped' = {}
    /\ UNCHANGED <<auxVars, viewVars, useSupabase, db, now, pc, syncLocals, progress, outcome,
                   calls, passes, userSaves, repeated, userSaved, initiatives>>

\* loadData: appState.initiatives becomes a new array of new objects
LoadData ==
    /\ \E list \in getAllInitiatives(useSupabase, db) :
           /\ list # initiatives
           /\ initiatives' = list
    /\ riskShared' = FALSE
    /\ UNCHANGED <<auxVars, viewVars, useSupabase, db, now, pc, syncLocals, progress, outcome,
                   calls, passes, userSaves, repeated, userSaved, riskPc,
                   riskList, riskIdx, riskResult, riskCalls, riskFlipped>>

\* a day passes
Tick ==
    /\ now < MaxClock
    /\ now' = now + 1
    /\ UNCHANGED <<auxVars, viewVars, useSupabase, db, pc, syncLocals, progress, outcome, calls,
                   passes, userSaves, repeated, userSaved, initiatives, riskPc,
                   riskList, riskShared, riskIdx, riskResult, riskCalls,
                   riskFlipped>>

\* a phase as a user gives it
Phase(name, endDate, status) ==
    [name |-> name, startDate |-> <<1>>, endDate |-> <<endDate>>,
     status |-> status]

\* what a user has saved for an initiative before the evaluator starts on
\* day 10: its status and its phases
RiskRecords(id) ==
    { [id |-> id, name |-> "Old", owner |-> "Bob", status |-> r[1],
       startDate |-> <<1>>, targetDate |-> <<20>>,
       categories |-> <<"Custom">>, tags |-> <<"urgent">>, phases |-> r[2]] :
        r \in { <<"Active", << >> >>,
                <<"Active", <<Phase("Plan", 9, "in-progress")>> >>,
                <<"Risk", <<Phase("Plan", 9, "in-progress")>> >>,
                <<"Risk", <<Phase("Plan", 9, "completed")>> >>,
                <<"Completed", <<Phase("Plan", 9, "in-progress")>> >>,
                <<"Active", <<Phase("Plan", 10, "in-progress"),
                              Without(Phase("Build", 15, "none"), {"status"})>> >>,
                <<"Planned", <<Phase("Plan", 16, "planned")>> >> } }

\* the ids of the initiatives the user has saved
RiskIds == {Ids[i] : i \in 1..MaxInitiatives}

\* the application has started on day 10: the user's initiatives are
\* stored, one saved after the other, and loaded
InitRisk ==
    /\ ViewIdle
    /\ useSupabase \in BOOLEAN
    /\ \E saved \in [RiskIds -> UNION {RiskRecords(id) : id \in RiskIds}] :
           /\ \A id \in RiskIds : saved[id] \in RiskRecords(id)
           /\ db = [id \in IdSet |->
                       IF id \in RiskIds
                       THEN saveInitiative(useSupabase, Null, saved[id],
                                           KeyOrder(id))
                       ELSE Null]
    /\ userSaved = [id \in IdSet |-> Null]
    /\ now = 10
    /\ initiatives \in getAllInitiatives(useSupabase, db)
    /\ riskPc = "idle"
    /\ riskList = << >>
    /\ riskShared = FALSE
    /\ riskIdx = 0
    /\ riskResult = Null
    /\ riskCalls = << >>
    /\ riskFlipped = {}
    /\ pc = "idle"
    /\ fieldIds = NoFieldIds
    /\ issues = << >>
    /\ keyInitiativeKeys = {}
    /\ mappedInitiatives = << >>
    /\ idx = 0
    /\ existingItem = Null
    /\ mergedItem = Null
    /\ syncedCount = 0
    /\ progress = << >>
    /\ outcome = Pending
    /\ calls = << >>
    /\ passes = 0
    /\ userSaves = 0
    /\ repeated = FALSE

NextRisk ==
    \/ RiskStart
    \/ \E ok \in BOOLEAN : RiskSave(ok)
    \/ RiskReturn
    \/ LoadData
    \/ Tick

SpecRisk == InitRisk /\ [][NextRisk]_vars

\* the passes of one day, and the reloads
NextRiskPasses ==
    \/ RiskStart
    \/ \E ok \in BOOLEAN : RiskSave(ok)
    \/ RiskReturn
    \/ LoadData

\* the evaluator with its interval running for ever: a pass starts
\* whenever none is in flight, a pass in flight ends, and a store that is
\* asked again and again accepts a write
SpecRiskFair ==
    /\ InitRisk
    /\ [][NextRiskPasses]_vars
    /\ WF_vars(RiskStart)
    /\ WF_vars(RiskReturn)
    /\ SF_vars(RiskSave(TRUE))

(***************************************************************************)
(* Evaluation passes with the phases edited between them.                  *)
(***************************************************************************)
\* the phases a user can leave an initiative with on day 10: none, one
\* that is completed, one that is open and overdue
EditedPhases ==
    { << >>, <<Phase("Plan", 9, "completed")>>,
      <<Phase("Plan", 9, "in-progress")>> }

\* the user edits the phases of an initiative of the collection; the
\* object stays the one of the collection, with its other fields
EditPhases(i, phases) ==
    /\ userSaves < MaxUserSaves
    /\ userSaves' = userSaves + 1
    /\ i \in 1..Len(initiatives)
    /\ OrEmptyArray(initiatives[i], "phases") # phases
    /\ initiatives' = [initiatives EXCEPT ![i] = [phases |-> phases] @@ @]
    /\ riskList' = IF riskShared THEN initiatives' ELSE riskList
    /\ UNCHANGED <<auxVars, viewVars, useSupabase, db, now, pc, syncLocals,
                   progress, outcome, calls, passes, repeated, userSaved,
                   riskPc, riskShared, riskIdx, riskResult, riskCalls,
                   riskFlipped>>

NextDetect ==
    \/ RiskStart
    \/ \E ok \in BOOLEAN : RiskSave(ok)
    \/ RiskReturn
    \/ \E i \in 1..MaxInitiatives, phases \in EditedPhases :
           EditPhases(i, phases)

SpecDetect == InitRisk /\ [][NextDetect]_vars

(***************************************************************************)
(* startRiskDetection: the pass at once and the passes of the interval,    *)
(* which can overlap, each a call of saveRiskDetection on the array of     *)
(* the collection.                                                         *)
(***************************************************************************)
\* the callback of a pass up to its first await: getInitiatives(), then
\* saveRiskDetection up to its first saveInitiative
PassBegins(kind) ==
    LET result == detectRisks(initiatives, now)
        no == Len(SelectSeq(detection.events,
                            LAMBDA e : e.type = "start")) + 1
    IN  /\ initiatives' = result.initiatives
        /\ detection' =
               [detection EXCEPT
                   !.interval = "active",
                   !.ticks = IF kind = "periodic" THEN @ + 1 ELSE @,
                   !.running =
                       Append(@, [no |-> no, idx |-> 1,
                                  result |->
                                      [autoUpdatedCount |->
                                           result.autoUpdatedCount,
                                       warnings |-> result.warnings],
                                  pc |-> IF result.autoUpdatedCount > 0
                                         THEN "save" ELSE "done"]),
                   !.events =
                       Append(@, [type |-> "start", pass |-> no,
                                  kind |-> kind, read |-> initiatives])]

\* startRiskDetection(onRisksDetected): the pass run immediately, and
\* setInterval
StartDetection ==
    /\ detection.interval = "none"
    /\ PassBegins("immediate")
    /\ UNCHANGED <<relayVars, backendVars, viewVars, useSupabase, db, now, pc,
                   syncLocals, progress, outcome, calls, passes, userSaves,
                   repeated, userSaved, riskPc, riskList, riskShared, riskIdx,
                   riskResult, riskCalls, riskFlipped>>

\* the interval fires
IntervalTick ==
    /\ detection.interval = "active"
    /\ detection.ticks < MaxPasses
    /\ PassBegins("periodic")
    /\ UNCHANGED <<relayVars, backendVars, viewVars, useSupabase, db, now, pc,
                   syncLocals, progress, outcome, calls, passes, userSaves,
                   repeated, userSaved, riskPc, riskList, riskShared, riskIdx,
                   riskResult, riskCalls, riskFlipped>>

\* the loop of saveRiskDetection of a pass in flight goes on to the next
\* initiative with _autoRisk and its saveInitiative settles, or it finds
\* none
PassSave(p, ok) ==
    /\ p \in 1..Len(detection.running)
    /\ detection.running[p].pc = "save"
    /\ LET from == detection.running[p].idx
       IN  IF Marked(initiatives, from) = {}
           THEN /\ detection' = [detection EXCEPT !.running[p].pc = "done"]
                /\ UNCHANGED <<db, initiatives>>
           ELSE LET at == Least(Marked(initiatives, from))
                    initiative == initiatives[at]
                    handed == IF useSupabase THEN initiative
                              ELSE LocalPut(initiative, now)
                    kept == IF ok THEN Without(handed, {"_autoRisk"})
                            ELSE handed
                    list == [initiatives EXCEPT ![at] = kept]
                IN  /\ initiatives' = list
                    /\ db' = IF ok
                             THEN [db EXCEPT ![initiative.id] =
                                      saveInitiative(useSupabase, @,
                                                     initiative, now)]
                             ELSE db
                    /\ detection' =
                           [detection EXCEPT
                               !.running[p].idx = at + 1,
                               !.running[p].pc =
                                   IF Marked(list, at + 1) # {}
                                   THEN "save" ELSE "done"]
    /\ UNCHANGED <<relayVars, backendVars, viewVars, useSupabase, now, pc,
                   syncLocals, progress, outcome, calls, passes, userSaves,
                   repeated, userSaved, riskPc, riskList, riskShared, riskIdx,
                   riskResult, riskCalls, riskFlipped>>

\* saveRiskDetection of a pass has returned: showRiskNotifications with
\* the warnings, then onRisksDetected with the result
PassEnds(p) ==
    /\ p \in 1..Len(detection.running)
    /\ detection.running[p].pc = "done"
    /\ LET pass == detection.running[p]
       IN  detection' =
               [detection EXCEPT
                   !.running = [i \in 1..(Len(@) - 1) |->
                                   IF i < p THEN @[i] ELSE @[i + 1]],
                   !.events =
                       @ \o <<[type |-> "showRiskNotifications",
                               pass |-> pass.no,
                               warnings |-> pass.result.warnings],
                              [type |-> "onRisksDetected", pass |-> pass.no,
                               result |-> pass.result]>>]
    /\ UNCHANGED <<relayVars, backendVars, coreVars>>

\* mutant: stopping leaves the interval set
StopDetection_keepsInterval ==
    /\ detection.interval = "active"
    /\ ~detection.stopped
    /\ detection' = [detection EXCEPT !.stopped = TRUE]
    /\ UNCHANGED <<relayVars, backendVars, coreVars>>

\* stopRiskDetection(intervalId): clearInterval
StopDetection ==
    /\ detection.interval = "active"
    /\ ~detection.stopped
    /\ detection' = [detection EXCEPT !.stopped = TRUE, !.interval = "cleared"]
    /\ UNCHANGED <<relayVars, backendVars, coreVars>>

NextDetection ==
    \/ StartDetection
    \/ IntervalTick
    \/ \E p \in 1..(MaxPasses + 1), ok \in BOOLEAN : PassSave(p, ok)
    \/ \E p \in 1..(MaxPasses + 1) : PassEnds(p)
    \/ StopDetection

SpecDetection == InitRisk /\ [][NextDetection]_vars

(***************************************************************************)
(* Everything at once: sync passes, the risk evaluator, reloads and user   *)
(* saves, interleaved at every await.                                      *)
(***************************************************************************)
\* what a user saves for an initiative while sync and evaluator run: an
\* active initiative with a phase that has ended, or the same initiative
\* retagged and with its phase completed
ConcurrentRecords(id) ==
    { [id |-> id, name |-> "Old", owner |-> "Bob", status |-> "Active",
       startDate |-> <<1>>, targetDate |-> <<2>>,
       categories |-> <<"Custom">>, tags |-> r[1], phases |-> <<r[2]>>] :
        r \in { << <<"urgent">>, Phase("Plan", 5, "in-progress") >>,
                << <<"later">>, Phase("Plan", 5, "completed") >> } }

\* the application has started on day 10 with the first initiative saved
\* by the user and loaded, or with nothing stored
InitConcurrent ==
    /\ ViewIdle
    /\ useSupabase \in BOOLEAN
    /\ \E initiative \in ConcurrentRecords(Ids[1]) \cup {Null} :
           /\ db = [id \in IdSet |->
                       IF id = Ids[1] /\ initiative # Null
                       THEN saveInitiative(useSupabase, Null, initiative, 1)
                       ELSE Null]
           /\ userSaved = [id \in IdSet |->
                              IF id = Ids[1] THEN initiative ELSE Null]
    /\ now = 10
    /\ initiatives \in getAllInitiatives(useSupabase, db)
    /\ riskPc = "idle"
    /\ riskList = << >>
    /\ riskShared = FALSE
    /\ riskIdx = 0
    /\ riskResult = Null
    /\ riskCalls = << >>
    /\ riskFlipped = {}
    /\ pc = "idle"
    /\ fieldIds = NoFieldIds
    /\ issues = << >>
    /\ keyInitiativeKeys = {}
    /\ mappedInitiatives = << >>
    /\ idx = 0
    /\ existingItem = Null
    /\ mergedItem = Null
    /\ syncedCount = 0
    /\ progress = << >>
    /\ outcome = Pending
    /\ calls = << >>
    /\ passes = 0
    /\ userSaves = 0
    /\ repeated = FALSE

\* the issue lists the primary query answers with while the evaluator
\* runs: as many issues as the user has initiatives, at most
ConcurrentIssueLists == {found \in IssueLists : Len(found) <= MaxInitiatives}

NextConcurrent ==
    \/ \E credentialsOk \in BOOLEAN : SyncStart(credentialsOk)
    \/ \E ok \in BOOLEAN : SyncResolve(ok, AllFieldIds)
    \/ \E ok \in BOOLEAN, found \in ConcurrentIssueLists : SyncFetch(ok, found)
    \/ \E ok \in BOOLEAN : SyncKeys(ok, {})
    \/ \E ok \in BOOLEAN : SyncGet(ok)
    \/ \E ok \in BOOLEAN : SyncSave(ok)
    \/ SyncReturn
    \/ \E initiative \in ConcurrentRecords(Ids[1]) : UserSave(initiative)
    \/ RiskStart
    \/ \E ok \in BOOLEAN : RiskSave(ok)
    \/ RiskReturn
    \/ LoadData
    \/ Tick

SpecConcurrent == InitConcurrent /\ [][NextConcurrent]_vars

(***************************************************************************)
(* The mapping of one issue: mapJiraIssueToInitiative applied to issues    *)
(* whose status name is drawn from names that hold none, one or two of the *)
(* words of the rules, in lower and in upper case.                         *)
(***************************************************************************)
\* the words a status name is made of: those of the rules and two others
StatusWords ==
    { << >>,
      <<"d", "o", "n", "e">>, <<"c", "l", "o", "s", "e", "d">>,
      <<"c", "o", "m", "p", "l", "e", "t", "e">>,
      <<"p", "l", "a", "n">>, <<"b", "a", "c", "k", "l", "o", "g">>,
      <<"r", "i", "s", "k">>, <<"b", "l", "o", "c", "k">>,
      <<"o", "p", "e", "n", " ">>, <<" ", "i", "n", " ", "q", "a">> }

\* the name in capitals
Capitals(s) ==
    [i \in 1..Len(s) |->
        IF \E k \in 1..Len(LowerLetters) : LowerLetters[k] = s[i]
        THEN UpperLetters[CHOOSE k \in 1..Len(LowerLetters) :
                              LowerLetters[k] = s[i]]
        ELSE s[i]]

\* the status names the tracker can answer with
StatusNames ==
    {a \o b : a, b \in StatusWords}
    \cup {Capitals(a \o b) : a, b \in StatusWords}
    \cup {InProgress, Done, AtRisk}

\* the fields of the issue to map: with a status of one of the names, or
\* with no status
StatusIssueFields ==
    {[summary |-> "New", created |-> <<10>>, status |-> name] :
        name \in StatusNames}
    \cup {[summary |-> "New", created |-> <<10>>]}

InitStatus ==
    /\ ViewIdle
    /\ useSupabase = FALSE
    /\ db = [id \in IdSet |-> Null]
    /\ now = 1
    /\ pc = "map"
    /\ fieldIds = AllFieldIds
    /\ \E fields \in StatusIssueFields :
           issues = <<[key |-> Ids[1], fields |-> fields]>>
    /\ keyInitiativeKeys = {}
    /\ mappedInitiatives = << >>
    /\ idx = 0
    /\ existingItem = Null
    /\ mergedItem = Null
    /\ syncedCount = 0
    /\ progress = << >>
    /\ outcome = Pending
    /\ calls = << >>
    /\ passes = 0
    /\ userSaves = 0
    /\ repeated = FALSE
    /\ userSaved = [id \in IdSet |-> Null]
    /\ RiskIdle

\* issues.map(issue => mapJiraIssueToInitiative(issue, ...)) on the issue
MapIssue ==
    /\ pc = "map"
    /\ mappedInitiatives' =
           [i \in 1..Len(issues) |->
               mapJiraIssueToInitiative(issues[i], fieldIds, keyInitiativeKeys)]
    /\ pc' = "mapped"
    /\ UNCHANGED <<auxVars, viewVars, riskVars, userSaved, useSupabase, db, now, fieldIds, issues,
                   keyInitiativeKeys, idx, existingItem, mergedItem,
                   syncedCount, progress, outcome, calls, passes, userSaves,
                   repeated>>

\* the tracker answers with another issue
NextIssue(fields) ==
    /\ pc = "mapped"
    /\ issues' = <<[key |-> Ids[1], fields |-> fields]>>
    /\ mappedInitiatives' = << >>
    /\ pc' = "map"
    /\ UNCHANGED <<auxVars, viewVars, riskVars, userSaved, useSupabase, db, now, fieldIds,
                   keyInitiativeKeys, idx, existingItem, mergedItem,
                   syncedCount, progress, outcome, calls, passes, userSaves,
                   repeated>>

NextStatus ==
    \/ MapIssue
    \/ \E fields \in StatusIssueFields : NextIssue(fields)

SpecStatus == InitStatus /\ [][NextStatus]_vars

(***************************************************************************)
(* The view filter: getFilteredInitiatives over collections of up to       *)
(* MaxInitiatives initiatives, under every setting of the three filters.   *)
(***************************************************************************)
\* the initiatives of a collection, but for the id
FilterShapes ==
    { [status |-> "Active", name |-> <<"A", "p", "p">>,
       owner |-> <<"A", "n", "n">>],
      [status |-> "Active", name |-> <<"W", "e", "b">>,
       categories |-> <<"Tech">>, targetDate |-> <<20>>],
      [status |-> "Risk", name |-> <<"A", "p", "p">>,
       owner |-> <<"B", "o", "b">>, categories |-> <<"Ops", "Tech">>,
       keyInitiative |-> "Yes", targetDate |-> <<40>>],
      [status |-> "Risk", name |-> <<"W", "e", "b">>,
       owner |-> <<"A", "n", "n">>, categories |-> << >>],
      [status |-> "Active", name |-> <<"A", "p", "p">>,
       owner |-> <<"A", "n", "n">>, categories |-> <<"Tech">>] }

\* the collections appState.initiatives can hold
FilterCollections ==
    UNION { { [i \in 1..n |-> [id |-> Ids[i]] @@ shape[i]] :
              shape \in [1..n -> FilterShapes] } :
            n \in 0..MaxInitiatives }

\* the values appState.filters can have
FilterStates ==
    [status : {"all", "Active", "Risk"},
     category : {"all", "Tech", "Ops"},
     search : {<< >>, <<"A", "N">>, <<"w", "e">>}]

InitFilter ==
    /\ useSupabase = FALSE
    /\ db = [id \in IdSet |-> Null]
    /\ now = 1
    /\ pc = "idle"
    /\ fieldIds = NoFieldIds
    /\ issues = << >>
    /\ keyInitiativeKeys = {}
    /\ mappedInitiatives = << >>
    /\ idx = 0
    /\ existingItem = Null
    /\ mergedItem = Null
    /\ syncedCount = 0
    /\ progress = << >>
    /\ outcome = Pending
    /\ calls = << >>
    /\ passes = 0
    /\ userSaves = 0
    /\ repeated = FALSE
    /\ userSaved = [id \in IdSet |-> Null]
    /\ initiatives \in FilterCollections
    /\ riskPc = "idle"
    /\ riskList = << >>
    /\ riskShared = FALSE
    /\ riskIdx = 0
    /\ riskResult = Null
    /\ riskCalls = << >>
    /\ riskFlipped = {}
    /\ ViewIdle

\* updateFilters(f): the filters are replaced
UpdateFilters(f) ==
    /\ f # filters
    /\ filters' = f
    /\ filtered' = Null
    /\ UNCHANGED <<auxVars, riskVars, userSaved, useSupabase, db, now, pc, syncLocals,
                   progress, outcome, calls, passes, userSaves, repeated,
                   activeView, timelineFilters>>

\* getFilteredInitiatives() is called and returns
GetFiltered ==
    /\ filtered = Null
    /\ filtered' = [returned |-> getFilteredInitiatives(initiatives, filters)]
    /\ UNCHANGED <<auxVars, riskVars, userSaved, useSupabase, db, now, pc, syncLocals,
                   progress, outcome, calls, passes, userSaves, repeated,
                   filters, activeView, timelineFilters>>

NextFilter ==
    \/ \E f \in FilterStates : UpdateFilters(f)
    \/ GetFiltered

SpecFilter == InitFilter /\ [][NextFilter]_vars

(***************************************************************************)
(* The projection for the active view, over the same collections.          *)
(***************************************************************************)
\* the views of the page
Views == {"dashboard", "timeline", "history"}

\* the settings of the dashboard filters, for the projection of a view
ViewFilterStates ==
    { [status |-> "all", category |-> "all", search |-> << >>],
      [status |-> "Active", category |-> "all", search |-> << >>],
      [status |-> "Risk", category |-> "Tech", search |-> <<"w", "e">>],
      [status |-> "all", category |-> "Ops", search |-> <<"A", "N">>] }

\* the settings of the timeline filters
TimelineFilterStates ==
    { NoTimelineFilters,
      [name |-> <<"A", "P">>, keyOnly |-> TRUE, owner |-> << >>,
       statuses |-> {"Active", "Risk", "Planned", "Completed"},
       targetBefore |-> << >>],
      [name |-> << >>, keyOnly |-> FALSE, owner |-> <<"a", "n">>,
       statuses |-> {"Active"}, targetBefore |-> <<30>>] }

\* setActiveView(view)
SetActiveView(view) ==
    /\ view # activeView
    /\ activeView' = view
    /\ filtered' = Null
    /\ UNCHANGED <<auxVars, riskVars, userSaved, useSupabase, db, now, pc, syncLocals,
                   progress, outcome, calls, passes, userSaves, repeated,
                   filters, timelineFilters>>

\* the timeline filters are set
UpdateTimelineFilters(t) ==
    /\ t # timelineFilters
    /\ timelineFilters' = t
    /\ filtered' = Null
    /\ UNCHANGED <<auxVars, riskVars, userSaved, useSupabase, db, now, pc, syncLocals,
                   progress, outcome, calls, passes, userSaves, repeated,
                   filters, activeView>>

\* the projection for the active view is asked for and returned
GetFilteredForView ==
    /\ filtered = Null
    /\ filtered' = [returned |-> filterForView(activeView, initiatives,
                                               filters, timelineFilters)]
    /\ UNCHANGED <<auxVars, riskVars, userSaved, useSupabase, db, now, pc, syncLocals,
                   progress, outcome, calls, passes, userSaves, repeated,
                   filters, activeView, timelineFilters>>

NextView ==
    \/ \E view \in Views : SetActiveView(view)
    \/ \E f \in ViewFilterStates : UpdateFilters(f)
    \/ \E t \in TimelineFilterStates : UpdateTimelineFilters(t)
    \/ GetFilteredForView

SpecView == InitFilter /\ [][NextView]_vars

(***************************************************************************)
(* The two backends side by side: every store call is made on both.        *)
(***************************************************************************)
\* the page before anything has happened on it
PageIdle ==
    /\ db = [id \in IdSet |-> Null]
    /\ now = 1
    /\ pc = "idle"
    /\ fieldIds = NoFieldIds
    /\ issues = << >>
    /\ keyInitiativeKeys = {}
    /\ mappedInitiatives = << >>
    /\ idx = 0
    /\ existingItem = Null
    /\ mergedItem = Null
    /\ syncedCount = 0
    /\ progress = << >>
    /\ outcome = Pending
    /\ calls = << >>
    /\ passes = 0
    /\ userSaves = 0
    /\ repeated = FALSE
    /\ userSaved = [id \in IdSet |-> Null]
    /\ riskPc = "idle"
    /\ riskList = << >>
    /\ riskShared = FALSE
    /\ riskIdx = 0
    /\ riskResult = Null
    /\ riskCalls = << >>
    /\ riskFlipped = {}
    /\ filters = [status |-> "all", category |-> "all", search |-> << >>]
    /\ filtered = Null
    /\ activeView = "dashboard"
    /\ timelineFilters = NoTimelineFilters
    /\ RelayIdle
    /\ DetectionIdle

\* the initiatives the core hands to saveInitiative
BackendRecords ==
    UNION { UserRecords(id)
            \cup { [id |-> id, name |-> "Web", status |-> "Active"],
                   [id |-> id, name |-> "Web", status |-> "Risk",
                    categories |-> <<"Tech">>, _autoRisk |-> TRUE] } :
            id \in {Ids[1], Ids[2]} }

InitBackends ==
    /\ PageIdle
    /\ initiatives = << >>
    /\ useSupabase = FALSE
    /\ BackendsIdle

\* all of the state but the clock and the two backends
pageVars == <<useSupabase, db, pc, syncLocals, progress, outcome, calls,
              passes, userSaves, repeated, userSaved, riskVars, viewVars,
              relayVars, detection>>

\* saveInitiative(initiative) on each backend, at one instant
BothSave(initiative) ==
    /\ now <= MaxInitiatives + 1
    /\ now' = now + 1
    /\ indexedDb' = [indexedDb EXCEPT !.initiatives[initiative.id] =
                         saveInitiative(FALSE, @, initiative, now)]
    /\ supabase' = [supabase EXCEPT !.initiatives[initiative.id] =
                        saveInitiative(TRUE, @, initiative, now)]
    /\ answer' = [op |-> "saveInitiative",
                  local |-> LocalPut(initiative, now), cloud |-> initiative]
    /\ UNCHANGED <<pageVars, migration>>

\* getInitiativeById(id) on each backend
BothGet(id) ==
    /\ answer' = [op |-> "getInitiativeById",
                  local |-> getInitiativeById(FALSE, indexedDb.initiatives[id]),
                  cloud |-> getInitiativeById(TRUE, supabase.initiatives[id])]
    /\ UNCHANGED <<pageVars, now, indexedDb, supabase, migration>>

\* deleteInitiative(id) on each backend; both resolve to undefined
BothDelete(id) ==
    /\ indexedDb' = [indexedDb EXCEPT !.initiatives[id] = Null]
    /\ supabase' = [supabase EXCEPT !.initiatives[id] = Null]
    /\ answer' = [op |-> "deleteInitiative",
                  local |-> EmptyObject, cloud |-> EmptyObject]
    /\ UNCHANGED <<pageVars, now, migration>>

\* getAllInitiatives() on each backend
BothGetAll ==
    /\ \E l \in getAllInitiatives(FALSE, indexedDb.initiatives),
          c \in getAllInitiatives(TRUE, supabase.initiatives) :
           answer' = [op |-> "getAllInitiatives",
                      local |-> [array |-> l], cloud |-> [array |-> c]]
    /\ UNCHANGED <<pageVars, now, indexedDb, supabase, migration>>

NextBackends ==
    \/ \E initiative \in BackendRecords : BothSave(initiative)
    \/ \E id \in {Ids[1], Ids[2]} : BothGet(id)
    \/ \E id \in {Ids[1], Ids[2]} : BothDelete(id)
    \/ BothGetAll

SpecBackends == InitBackends /\ [][NextBackends]_vars

(***************************************************************************)
(* The migration of the local data to the cloud.                           *)
(***************************************************************************)
\* what the two databases can hold when the migration is asked for: the
\* local one the objects and snapshots of earlier sessions on the local
\* backend, the cloud one a row and a snapshot or nothing
MigrationDatabases ==
    LET object(id) == LocalPut([id |-> id, name |-> "Web", status |-> "Active",
                                categories |-> <<"Tech">>], 0)
        row(id) == Upsert(Null, transformToDbFormat(
                       [id |-> id, name |-> "App", status |-> "Planned"], 0), 0)
        snapshot(n) == [id |-> n, note |-> "weekly",
                        data |-> [json |-> <<object(Ids[1])>>], created_at |-> 0]
        held(S, item(_)) ==
            [id \in IdSet |-> IF id \in S THEN item(id) ELSE Null]
    IN  [local : { [initiatives |-> held(S, object),
                    snapshots |-> [n \in 1..k |-> snapshot(n)]] :
                   S \in SUBSET {Ids[1], Ids[2]}, k \in 0..MaxInitiatives },
         cloud : { [initiatives |-> held(S, row),
                    snapshots |-> [n \in 1..k |->
                                      [id |-> n, note |-> "first",
                                       data |-> << >>, created_at |-> 0]]] :
                   S \in SUBSET {Ids[2]}, k \in 0..1 }]

InitMigrate ==
    /\ PageIdle
    /\ initiatives = << >>
    /\ useSupabase \in BOOLEAN
    /\ answer = Null
    /\ migration = [pc |-> "idle"]
    /\ \E d \in MigrationDatabases :
           /\ indexedDb = d.local
           /\ supabase = d.cloud

\* migrateToSupabase() up to its first loop: it throws when the cloud
\* backend is not in use; else it reads the initiatives and the snapshots
\* with getAllInitiatives() and getAllSnapshots(), which read the backend
\* in use; a failed read rejects
MigrateStart(ok) ==
    /\ migration.pc = "idle"
    /\ IF ~useSupabase
       THEN migration' = [pc |-> "rejected", before |-> supabase,
                          error |-> "Supabase not configured"]
       ELSE IF ~ok
       THEN migration' = [pc |-> "rejected", before |-> supabase,
                          error |-> "store"]
       ELSE \E all \in getAllInitiatives(
                          useSupabase,
                          IF useSupabase THEN supabase.initiatives
                          ELSE indexedDb.initiatives) :
                migration' =
                    [pc |-> "initiatives", before |-> supabase, at |-> 1,
                     localInitiatives |-> all,
                     localSnapshots |->
                         getAllSnapshots(useSupabase,
                                         IF useSupabase THEN supabase.snapshots
                                         ELSE indexedDb.snapshots)]
    /\ UNCHANGED <<pageVars, now, indexedDb, supabase, answer>>

\* one turn of the loop over localInitiatives: saveInitiative, which
\* rejects the migration when it fails
MigrateInitiative(ok) ==
    /\ migration.pc = "initiatives"
    /\ migration.at <= Len(migration.localInitiatives)
    /\ LET initiative == migration.localInitiatives[migration.at]
       IN  IF ok
           THEN /\ supabase' =
                       [supabase EXCEPT !.initiatives[initiative.id] =
                           saveInitiative(useSupabase, @, initiative, now)]
                /\ migration' = [migration EXCEPT !.at = @ + 1]
           ELSE /\ supabase' = supabase
                /\ migration' = [pc |-> "rejected", before |-> migration.before,
                                  error |-> "store"]
    /\ UNCHANGED <<pageVars, now, indexedDb, answer>>

\* the first loop is over, or one turn of the loop over localSnapshots:
\* an insert of the note and the parsed data, whose error is not looked at
MigrateSnapshot(ok) ==
    /\ \/ /\ migration.pc = "initiatives"
          /\ migration.at > Len(migration.localInitiatives)
          /\ migration' = [migration EXCEPT !.pc = "snapshots", !.at = 1]
          /\ supabase' = supabase
       \/ /\ migration.pc = "snapshots"
          /\ migration.at <= Len(migration.localSnapshots)
          /\ LET snapshot == migration.localSnapshots[migration.at]
                 row == [id |-> Len(supabase.snapshots) + 1,
                         note |-> snapshot.note, data |-> snapshot.data.json,
                         created_at |-> now]
             IN  supabase' = IF ok
                             THEN [supabase EXCEPT !.snapshots = Append(@, row)]
                             ELSE supabase
          /\ migration' = [migration EXCEPT !.at = @ + 1]
    /\ UNCHANGED <<pageVars, now, indexedDb, answer>>

\* the counts are returned
MigrateReturn ==
    /\ migration.pc = "snapshots"
    /\ migration.at > Len(migration.localSnapshots)
    /\ migration' =
           [pc |-> "done", before |-> migration.before,
            result |-> [initiatives |-> Len(migration.localInitiatives),
                        snapshots |-> Len(migration.localSnapshots)]]
    /\ UNCHANGED <<pageVars, now, indexedDb, supabase, answer>>

NextMigrate ==
    \/ \E ok \in BOOLEAN : MigrateStart(ok)
    \/ \E ok \in BOOLEAN : MigrateInitiative(ok)
    \/ \E ok \in BOOLEAN : MigrateSnapshot(ok)
    \/ MigrateReturn

SpecMigrate == InitMigrate /\ [][NextMigrate]_vars

(***************************************************************************)
(* The collection in memory under updates and removals.                    *)
(***************************************************************************)
\* the initiatives handed to updateInitiativeInState
StateRecords ==
    { [id |-> id, name |-> "Web", status |-> status] :
          id \in IdSet, status \in {"Active", "Risk", "Completed"} }

\* the collection as loaded: one initiative for each id
InitState ==
    /\ PageIdle
    /\ useSupabase = FALSE
    /\ BackendsIdle
    /\ initiatives = [k \in 1..Len(Ids) |->
                          [id |-> Ids[k], name |-> "Web", status |-> "Active"]]

\* updateInitiativeInState(initiative)
UpdateInState(initiative) ==
    /\ initiatives' = updateInitiativeInState(initiatives, initiative)
    /\ UNCHANGED <<auxVars, viewVars, useSupabase, db, now, pc, syncLocals,
                   progress, outcome, calls, passes, userSaves, repeated,
                   userSaved, riskPc, riskList, riskShared, riskIdx,
                   riskResult, riskCalls, riskFlipped>>

\* removeInitiativeFromState(id)
RemoveFromState(id) ==
    /\ initiatives' = removeInitiativeFromState(initiatives, id)
    /\ UNCHANGED <<auxVars, viewVars, useSupabase, db, now, pc, syncLocals,
                   progress, outcome, calls, passes, userSaves, repeated,
                   userSaved, riskPc, riskList, riskShared, riskIdx,
                   riskResult, riskCalls, riskFlipped>>

NextState ==
    \/ \E initiative \in StateRecords : UpdateInState(initiative)
    \/ \E id \in IdSet : RemoveFromState(id)

SpecState == InitState /\ [][NextState]_vars

(***************************************************************************)
(* The relay under requests of every shape.                                *)
(***************************************************************************)
\* the elements of an initiatives array
RelayElements ==
    { [name |-> "Web", status |-> "Active"],
      [name |-> "App", status |-> "Risk", targetDate |-> <<20>>],
      [status |-> "Active"],
      [name |-> "Web"],
      [name |-> "", status |-> "Active"],
      Null }

\* the bodies of a request
RelayBodies ==
    { [summary |-> "yes"] }
    \cup { [initiatives |-> [kind |-> kind, items |-> << >>]] :
             kind \in {"null", "object"} }
    \cup UNION { { [initiatives |-> [kind |-> "array", items |-> items]] :
                   items \in [1..n -> RelayElements] } :
                 n \in 0..MaxInitiatives }

InitRelay ==
    /\ InitFilter

\* a request arrives: the first one, or the next one after a response
RelayRequest(body) ==
    /\ request = Null \/ response # Null
    /\ request' = body
    /\ response' = Null
    /\ relayLog' = << >>
    /\ UNCHANGED <<coreVars, backendVars, detection>>

\* exportData(req, res) of the routes module handles it
RelayExportData ==
    /\ request # Null
    /\ response = Null
    /\ response' = exportData(request).response
    /\ relayLog' = exportData(request).log
    /\ UNCHANGED <<coreVars, backendVars, detection, request>>

\* the handler of email-scheduler.js handles it
RelayPostExportData ==
    /\ request # Null
    /\ response = Null
    /\ response' = postExportData(request).response
    /\ relayLog' = postExportData(request).log
    /\ UNCHANGED <<coreVars, backendVars, detection, request>>

NextRelay ==
    \/ \E body \in RelayBodies : RelayRequest(body)
    \/ RelayExportData
    \/ RelayPostExportData

SpecRelay == InitRelay /\ [][NextRelay]_vars

(***************************************************************************)
(* Properties of the merge, checked on the single round trip.              *)
(***************************************************************************)
\* the record the loop of syncFromJira is at
jiraItem == mappedInitiatives[idx]

\* saveInitiative is about to be called with the merge of an existing record
Merging == pc = "save" /\ existingItem # Null


\* the stored record as the application reads it
Stored(id) == getInitiativeById(useSupabase, db[id])

\* the pass has just saved the record
JustSaved ==
    /\ pc = "done"
    /\ calls[Len(calls)].op = "save"
    /\ calls[Len(calls)].ok

\* C1 as stated: the merge of a present existing record has the tags and
\* the phases of that record, equal to them in every case.
C1_TagsPhasesEqualExisting ==
    Merging => /\ SameProp(mergedItem, existingItem, "tags")
               /\ SameProp(mergedItem, existingItem, "phases")

\* C1 amended: the merge of a present existing record has the tags and the
\* phases of that record, and an empty list for the one the record lacks;
\* nothing of the JIRA data reaches the two fields.
C1_TagsPhasesFromExisting ==
    Merging =>
        \A f \in {"tags", "phases"} :
            /\ Has(mergedItem, f)
            /\ Has(existingItem, f) => mergedItem[f] = existingItem[f]
            /\ ~Has(existingItem, f) => mergedItem[f] = << >>

C1_Witness ==
    /\ Merging
    /\ Has(existingItem, "tags") /\ existingItem.tags = <<"urgent">>
    /\ Has(existingItem, "phases") /\ existingItem.phases = <<Phase1>>
    /\ mergedItem.tags = <<"urgent">>
    /\ mergedItem.phases = <<Phase1>>

\* C2: the categories of the merge of a present existing record hold no
\* element twice and are, as a set, the union of the categories of the
\* two records, a missing list counting as empty.
C2_CategoriesUnion ==
    Merging =>
        LET merged == mergedItem.categories
        IN  /\ \A i, j \in 1..Len(merged) : merged[i] = merged[j] => i = j
            /\ Range(merged) = Range(OrEmptyArray(existingItem, "categories"))
                               \cup Range(OrEmptyArray(jiraItem, "categories"))

C2_Witness ==
    /\ Merging
    /\ Has(existingItem, "categories")
    /\ existingItem.categories = <<"Custom", "Plat">>
    /\ jiraItem.categories = <<"Plat">>
    /\ mergedItem.categories = <<"Custom", "Plat">>

\* C3: with no existing record the merge is the mapped JIRA record, and
\* the record then stored is that record (with the two timestamps of the
\* store).
C3_NewRecordPassthrough ==
    /\ (pc = "save" /\ existingItem = Null) => mergedItem = jiraItem
    /\ (JustSaved /\ existingItem = Null) =>
           Without(Stored(jiraItem.id), {"created_at", "updated_at"}) = jiraItem

C3_Witness ==
    /\ JustSaved
    /\ existingItem = Null
    /\ mergedItem = jiraItem
    /\ Stored(jiraItem.id).name = "New"

\* C4: id, name, owner, status and keyInitiative of the merge of a present
\* existing record are those of the JIRA record.
C4_JiraFieldsOverwrite ==
    Merging =>
        \A f \in {"id", "name", "owner", "status", "keyInitiative"} :
            SameProp(mergedItem, jiraItem, f)

C4_Witness ==
    /\ Merging
    /\ existingItem.status = "Risk" /\ existingItem.keyInitiative = "Yes"
    /\ existingItem.name = "Old" /\ existingItem.owner = "Bob"
    /\ mergedItem.status = "Completed" /\ mergedItem.keyInitiative = "No"
    /\ mergedItem.name = "New" /\ mergedItem.owner = "Ann"

\* C5: each date of the merge is the date of the existing record when
\* that one is present and non-empty, and the date of the JIRA record
\* otherwise; and no step of a sync pass changes a non-empty stored date.
C5_MergeDates ==
    Merging =>
        \A f \in {"startDate", "targetDate"} :
            IF Truthy(existingItem, f) THEN mergedItem[f] = existingItem[f]
            ELSE SameProp(mergedItem, jiraItem, f)

C5_StoredDateKept ==
    \A id \in IdSet : \A f \in {"startDate", "targetDate"} :
        (db[id] # Null /\ Truthy(Stored(id), f)) =>
            /\ db'[id] # Null
            /\ Truthy(getInitiativeById(useSupabase, db'[id]), f)
            /\ getInitiativeById(useSupabase, db'[id])[f] = Stored(id)[f]

SameRecord(a, b) ==
    /\ Without(a, {"categories", "updated_at"})
           = Without(b, {"categories", "updated_at"})
    /\ Has(a, "categories") <=> Has(b, "categories")
    /\ Has(a, "categories") => Range(a.categories) = Range(b.categories)

\* C6: merging the merge with the same existing record again gives the
\* merge, and a pass that repeats the pass before it against an unchanged
\* tracker leaves the stored record as that pass left it.
C6_MergeTwice ==
    Merging =>
        SameRecord(mergeInitiativeData(mergedItem, existingItem), mergedItem)

C6_RepeatedPass ==
    (repeated /\ pc = "save") =>
        SameRecord(getInitiativeById(useSupabase, db'[mergedItem.id]),
                   Stored(mergedItem.id))

C6_Idempotent == [](C6_MergeTwice) /\ [][C6_RepeatedPass]_vars

C6_Witness ==
    /\ repeated
    /\ JustSaved
    /\ Stored(jiraItem.id).tags = <<"urgent">>
    /\ Stored(jiraItem.id).categories = <<"Custom", "Plat">>
    /\ Stored(jiraItem.id).updated_at > Stored(jiraItem.id).created_at + 1

(***************************************************************************)
(* Properties of a sync pass, checked on the whole system.                 *)
(***************************************************************************)
CallsOf(op) == {i \in 1..Len(calls) : calls[i].op = op}

Colored(color) == {i \in 1..Len(progress) : progress[i].color = color}

MappedIds == {mappedInitiatives[i].id : i \in 1..Len(mappedInitiatives)}

\* the records the pass asked the store for
AttemptedIds == {calls[i].id : i \in CallsOf("get")}

\* the records whose getInitiativeById and saveInitiative both resolved
SavedIds == {calls[i].id : i \in {j \in CallsOf("save") : calls[j].ok}}

\* the records whose getInitiativeById or saveInitiative was rejected
FailedIds ==
    {calls[i].id : i \in {j \in CallsOf("get") \cup CallsOf("save") : ~calls[j].ok}}

Ended == pc \in {"done", "idle"}

\* C7: a rejected store call of one record is not thrown and does not stop
\* the loop: every mapped record is asked for, synced is the number of
\* records whose two store calls resolved, and one failure among three
\* records gives synced = 2.
C7_PartialFailure ==
    /\ pc \in {"get", "save"} => outcome = Pending
    /\ (Ended /\ CallsOf("get") # {}) =>
           /\ outcome.kind = "returned"
           /\ outcome.synced = Cardinality(SavedIds)
           /\ AttemptedIds = MappedIds
           /\ SavedIds = MappedIds \ FailedIds
           /\ (Len(mappedInitiatives) = 3 /\ Cardinality(FailedIds) = 1)
                  => outcome.synced = 2

C7_Witness ==
    /\ pc = "done"
    /\ Len(mappedInitiatives) = 3
    /\ FailedIds = {Ids[1]}
    /\ SavedIds = {Ids[2], Ids[3]}
    /\ outcome.kind = "returned" /\ outcome.synced = 2
    /\ db[Ids[3]] # Null

\* C8: a primary query answered with no issue ends the pass with one
\* warning message and the result {synced: 0, keyInitiatives: 0}: no error
\* or success message, no secondary query, no call of the store.
C8_NoIssues ==
    (\E i \in CallsOf("fetch") : calls[i].ok /\ calls[i].n = 0) =>
        /\ Ended
        /\ outcome = Returned(0, 0)
        /\ progress[Len(progress)].color = "warning"
        /\ Cardinality(Colored("warning")) = 1
        /\ Colored("error") = {} /\ Colored("success") = {}
        /\ CallsOf("keys") = {} /\ CallsOf("get") = {} /\ CallsOf("save") = {}

C8_Witness ==
    /\ pc = "done"
    /\ \E i \in CallsOf("fetch") : calls[i].ok /\ calls[i].n = 0
    /\ outcome = Returned(0, 0)
    /\ \E id \in IdSet : db[id] # Null

\* C9: a rejected field resolution or primary query ends the pass with
\* exactly one error message, the last one, and the error thrown to the
\* caller, and without a call of the store.
C9_FatalAbort ==
    (\E i \in CallsOf("resolve") \cup CallsOf("fetch") : ~calls[i].ok) =>
        /\ Ended
        /\ outcome = Thrown
        /\ Cardinality(Colored("error")) = 1
        /\ progress[Len(progress)].color = "error"
        /\ Colored("success") = {} /\ Colored("warning") = {}
        /\ CallsOf("keys") = {} /\ CallsOf("get") = {} /\ CallsOf("save") = {}

C9_Witness ==
    /\ pc = "done"
    /\ \E i \in CallsOf("fetch") : ~calls[i].ok
    /\ outcome = Thrown
    /\ Len(progress) = 3

\* C10: a rejected secondary query does not end the pass: the key set is
\* empty, every mapped record has keyInitiative "No", every record is
\* still asked for, merged and saved, and the pass ends with a success
\* message that reports 0 key initiatives.
C10_KeyQueryFailure ==
    (\E i \in CallsOf("keys") : ~calls[i].ok) =>
        /\ keyInitiativeKeys = {}
        /\ outcome.kind # "thrown"
        /\ Len(mappedInitiatives) = Len(issues)
        /\ \A i \in 1..Len(mappedInitiatives) :
               mappedInitiatives[i].keyInitiative = "No"
        /\ pc = "save" => mergedItem.keyInitiative = "No"
        /\ Ended =>
               /\ outcome.kind = "returned"
               /\ outcome.keyInitiatives = 0
               /\ outcome.synced = Cardinality(SavedIds)
               /\ progress[Len(progress)].color = "success"
               /\ progress[Len(progress)].keyInitiatives = 0
               /\ AttemptedIds = MappedIds
               /\ SavedIds = MappedIds \ FailedIds

C10_Witness ==
    /\ pc = "done"
    /\ \E i \in CallsOf("keys") : ~calls[i].ok
    /\ Len(mappedInitiatives) = 3
    /\ outcome = Returned(3, 0)
    /\ \A id \in IdSet : db[id] # Null /\ Stored(id).keyInitiative = "No"

(***************************************************************************)
(* Properties of the risk evaluator.                                       *)
(***************************************************************************)
\* a step that starts an evaluation pass, detectRisks included
PassStarts == riskPc = "idle" /\ riskPc' # "idle"

\* an initiative has a phase that ended before a day and is not completed
HasOpenPhaseBefore(initiative, day) ==
    /\ Has(initiative, "phases")
    /\ \E k \in 1..Len(initiative.phases) :
           LET phase == initiative.phases[k]
           IN  /\ ValidDate(phase, "endDate")
               /\ phase.endDate[1] < day
               /\ NotCompleted(phase)

StatusIs(initiative, status) ==
    Has(initiative, "status") /\ initiative.status = status

\* C11 (the pass): an initiative that is neither at Risk nor Completed and
\* has a phase that ended before now and is not completed is at Risk after
\* detectRisks, and autoUpdatedCount is the number of initiatives whose
\* status the pass changed
C11_FlipStep ==
    PassStarts =>
        /\ \A i \in 1..Len(initiatives) :
               (/\ ~StatusIs(initiatives[i], "Risk")
                /\ ~StatusIs(initiatives[i], "Completed")
                /\ HasOpenPhaseBefore(initiatives[i], now))
               => /\ StatusIs(initiatives'[i], "Risk")
                  /\ i \in riskFlipped'
        /\ riskResult'.autoUpdatedCount = Cardinality(riskFlipped')

\* C11 (the saves): when saveRiskDetection is through, saveInitiative was
\* called for every initiative whose status the pass changed
C11_SavedEach ==
    riskPc = "done" =>
        \A i \in riskFlipped :
            \E k \in 1..Len(riskCalls) : riskCalls[k].id = riskList[i].id

\* C11: an overdue open phase flips a status that is neither Risk nor
\* Completed to Risk, autoUpdatedCount counts exactly the initiatives whose
\* status the pass changed, and saveInitiative is called for each of them
C11_RiskFlip == [](C11_SavedEach) /\ [][C11_FlipStep]_vars

C11_Witness ==
    /\ riskPc = "done"
    /\ Cardinality(riskFlipped) = 2
    /\ riskResult.autoUpdatedCount = 2
    /\ Len(riskCalls) = 2
    /\ \A i \in riskFlipped : StatusIs(riskList[i], "Risk")

\* a step of saveRiskDetection: the start of a pass with detectRisks, a
\* save that settles, or the return
EvaluatorStep == <<riskPc, riskCalls>>' # <<riskPc, riskCalls>>

\* from one record to the next the status is kept or goes to Risk, and a
\* status of Risk or Completed is kept
OnlyToRisk(before, after) ==
    \/ SameProp(before, after, "status")
    \/ /\ StatusIs(after, "Risk")
       /\ ~StatusIs(before, "Completed")

AllCompleted(initiative) ==
    /\ Has(initiative, "phases")
    /\ Len(initiative.phases) > 0
    /\ \A k \in 1..Len(initiative.phases) : ~NotCompleted(initiative.phases[k])

\* C12: a step of the evaluator keeps every status, in the collection and
\* in the store, or moves it to Risk; it never changes a status of Risk
\* or Completed, and never sets Active, Planned or Completed
C12_OnlyToRisk ==
    [][EvaluatorStep =>
          /\ Len(initiatives') = Len(initiatives)
          /\ \A i \in 1..Len(initiatives) :
                 OnlyToRisk(initiatives[i], initiatives'[i])
          /\ \A id \in IdSet :
                 db[id] # Null => /\ db'[id] # Null
                                  /\ OnlyToRisk(db[id], db'[id])]_vars

\* after a pass one initiative is still at Risk with every phase
\* completed, another still Completed with an overdue open phase
C12_Witness ==
    /\ riskPc = "done"
    /\ \E i, j \in 1..Len(initiatives) :
           /\ StatusIs(initiatives[i], "Risk")
           /\ AllCompleted(initiatives[i])
           /\ StatusIs(initiatives[j], "Completed")
           /\ HasOpenPhaseBefore(initiatives[j], now)

\* the lists detectRisks left on an initiative (none when it deleted
\* _riskInfo)
OverdueOf(initiative) ==
    IF Has(initiative, "_riskInfo")
    THEN initiative["_riskInfo"].overduePhases ELSE << >>

ApproachingOf(initiative) ==
    IF Has(initiative, "_riskInfo")
    THEN initiative["_riskInfo"].approachingPhases ELSE << >>

\* a list of detectRisks has an entry for a phase
Listed(entries, phase) ==
    \E e \in 1..Len(entries) :
        /\ SameProp(entries[e], phase, "name")
        /\ entries[e].endDate = phase.endDate

\* C13: detectRisks lists a phase as overdue iff it is not completed and
\* ends before now, as approaching iff it is not completed and ends from
\* now to now + 5 days, never as both, and never when it is completed
C13_PhaseBoundaries ==
    [][PassStarts =>
          \A i \in 1..Len(initiatives) :
              Has(initiatives[i], "phases") =>
                  \A k \in 1..Len(initiatives[i].phases) :
                      LET phase == initiatives[i].phases[k]
                          end == phase.endDate[1]
                          overdue == Listed(OverdueOf(initiatives'[i]), phase)
                          approaching ==
                              Listed(ApproachingOf(initiatives'[i]), phase)
                      IN  /\ overdue <=> (NotCompleted(phase) /\ end < now)
                          /\ approaching <=>
                                 (NotCompleted(phase) /\ now <= end /\ end <= now + 5)
                          /\ ~(overdue /\ approaching)
                          /\ ~NotCompleted(phase) => ~overdue /\ ~approaching]_vars

\* a pass has listed a phase that ends in exactly 5 days as approaching,
\* and has listed nothing for a phase that ends in 6 days
C13_Witness ==
    /\ riskPc = "done"
    /\ riskCalls = << >>
    /\ \E i, j \in 1..Len(initiatives) :
           /\ \E e \in 1..Len(ApproachingOf(initiatives[i])) :
                  ApproachingOf(initiatives[i])[e].endDate = <<now + 5>>
           /\ \E k \in 1..Len(initiatives[j].phases) :
                  /\ initiatives[j].phases[k].endDate = <<now + 6>>
                  /\ NotCompleted(initiatives[j].phases[k])
           /\ ~Has(initiatives[j], "_riskInfo")

(***************************************************************************)
(* The records a sync pass did not receive.                                *)
(***************************************************************************)
\* the keys of the issues that the primary query of the pass returned
ReceivedKeys(found) == {found[i].key : i \in 1..Len(found)}

\* C17: no step of a sync pass changes or removes the stored row of an id
\* that is not among the keys of the issues the primary query returned, so
\* that the row is after the pass what it was before it.
C17_OthersUntouched ==
    [][userSaves' = userSaves =>
           \A id \in IdSet \ ReceivedKeys(issues') : db'[id] = db[id]]_vars

C17_Witness ==
    /\ pc = "done"
    /\ outcome.kind = "returned" /\ outcome.synced >= 1
    /\ \E id \in IdSet \ ReceivedKeys(issues) :
           /\ db[id] # Null
           /\ Stored(id).name = "Old"
           /\ Stored(id).tags = <<"urgent">>

(***************************************************************************)
(* The creation time of a stored record.                                   *)
(***************************************************************************)
\* the merge of a present existing record has its created_at, or none
\* when the record as read has none
C18_MergeCreatedAt ==
    Merging => SameProp(mergedItem, existingItem, "created_at")

\* a step of a sync pass leaves a stored row stored, with its created_at
C18_CreatedAtKept ==
    \A id \in IdSet :
        db[id] # Null =>
            /\ db'[id] # Null
            /\ Has(db[id], "created_at") /\ Has(db'[id], "created_at")
            /\ db'[id].created_at = db[id].created_at

\* C18: on either backend the created_at of a stored row is the time of
\* the save that created the row, whatever number of sync passes has
\* merged and saved it since, and the merge of a present existing record
\* has the created_at of that record.
C18_CreatedAtOnce == [](C18_MergeCreatedAt) /\ [][C18_CreatedAtKept]_vars

C18_Witness ==
    /\ JustSaved
    /\ passes >= 2
    /\ existingItem # Null
    /\ ~useSupabase
    /\ mergedItem.created_at = 2
    /\ db[Ids[1]].created_at = 2
    /\ db[Ids[1]].updated_at > 2

(***************************************************************************)
(* The status of a record that a sync pass merges.                         *)
(***************************************************************************)
\* the pass has just saved the merge of a record stored with status Risk
MergedOverRisk ==
    /\ JustSaved
    /\ existingItem # Null
    /\ StatusIs(existingItem, "Risk")

\* the name of the status of the issue holds the word, in any case
StatusNameHolds(word) ==
    /\ Has(issues[idx].fields, "status")
    /\ includes(toLowerCase(issues[idx].fields.status), word)

\* C15 as stated: a record stored with status Risk is stored with status
\* Risk after a sync pass has merged it.
C15_RiskKept ==
    MergedOverRisk => StatusIs(Stored(jiraItem.id), "Risk")

\* C15 amended: a record stored with status Risk is stored, after a sync
\* pass has merged it, with the status mapped from the issue; it is Risk
\* when the name of the status of the issue holds "risk" or "block" and
\* none of the words of Completed and Planned, Completed when it holds
\* "done", and Active when the issue has no status.
C15_StatusFromIssue ==
    MergedOverRisk =>
        /\ SameProp(Stored(jiraItem.id), jiraItem, "status")
        /\ StatusNameHolds(<<"r", "i", "s", "k">>)
               => StatusIs(Stored(jiraItem.id), "Risk")
        /\ StatusNameHolds(<<"d", "o", "n", "e">>)
               => StatusIs(Stored(jiraItem.id), "Completed")
        /\ ~Has(issues[idx].fields, "status")
               => StatusIs(Stored(jiraItem.id), "Active")

C15_Witness ==
    /\ MergedOverRisk
    /\ StatusNameHolds(<<"d", "o", "n", "e">>)
    /\ StatusIs(Stored(jiraItem.id), "Completed")
    /\ passes = MaxRoundTrips

(***************************************************************************)
(* Properties of the store under sync passes, evaluation passes and user   *)
(* saves.                                                                  *)
(***************************************************************************)
\* C14: in every reachable state the stored tags and phases of an
\* initiative are the ones the user last saved for it
C14_UserFieldsKept ==
    \A id \in IdSet :
        userSaved[id] # Null =>
            /\ Stored(id) # Null
            /\ SameProp(Stored(id), userSaved[id], "tags")
            /\ SameProp(Stored(id), userSaved[id], "phases")

\* the categories stored for the id, none when nothing or no list is stored
StoredCategories(row) ==
    IF row = Null THEN {}
    ELSE Range(OrEmptyArray(row, "categories"))

\* C16: as long as no user has saved anything, every step (of a sync
\* pass, of an evaluation pass, a reload, the passing of time) leaves, for
\* every id, every category stored before the step stored after it.
C16_CategoriesGrow ==
    [][userSaves' = 0 =>
           \A id \in IdSet :
               StoredCategories(Stored(id)) \subseteq StoredCategories(Stored(id)')]_vars

(***************************************************************************)
(* Properties of the mapping of the status.                                *)
(***************************************************************************)
\* the two characters are the same letter, in whatever case
SameLetter(c, d) ==
    \/ c = d
    \/ \E k \in 1..Len(UpperLetters) :
           {c, d} = {UpperLetters[k], LowerLetters[k]}

\* the name holds the word, whatever the case of its letters
HoldsWord(name, word) ==
    \E at \in 0..(Len(name) - Len(word)) :
        \A k \in 1..Len(word) : SameLetter(name[at + k], word[k])

\* the status the rules give to a name, tried in their order
RuleStatus(name) ==
    CASE \/ HoldsWord(name, <<"d", "o", "n", "e">>)
         \/ HoldsWord(name, <<"c", "l", "o", "s", "e", "d">>)
         \/ HoldsWord(name, <<"c", "o", "m", "p", "l", "e", "t", "e">>)
             -> "Completed"
      [] OTHER ->
         CASE \/ HoldsWord(name, <<"p", "l", "a", "n">>)
              \/ HoldsWord(name, <<"b", "a", "c", "k", "l", "o", "g">>)
                  -> "Planned"
           [] OTHER ->
              CASE \/ HoldsWord(name, <<"r", "i", "s", "k">>)
                   \/ HoldsWord(name, <<"b", "l", "o", "c", "k">>)
                       -> "Risk"
                [] OTHER -> "Active"

\* C19: the status of a mapped issue is one of Active, Risk, Planned and
\* Completed; it is the status of the first rule, in the order Completed,
\* Planned, Risk, whose words the status name holds in any case, Active
\* when it holds none, and Active when the issue has no status.
C19_StatusRules ==
    pc = "mapped" =>
        \A i \in 1..Len(issues) :
            LET fields == issues[i].fields
                status == mappedInitiatives[i].status
            IN  /\ status \in {"Active", "Risk", "Planned", "Completed"}
                /\ status = IF Has(fields, "status")
                            THEN RuleStatus(fields.status) ELSE "Active"

C19_Witness ==
    /\ pc = "mapped"
    /\ Has(issues[1].fields, "status")
    /\ issues[1].fields.status =
           <<"R", "I", "S", "K", "B", "A", "C", "K", "L", "O", "G">>
    /\ mappedInitiatives[1].status = "Planned"

(***************************************************************************)
(* Properties of the view filter.                                          *)
(***************************************************************************)
\* the initiative passes the status filter and the category filter
PassesDashboard(initiative) ==
    /\ filters.status = "all" \/ StatusIs(initiative, filters.status)
    /\ \/ filters.category = "all"
       \/ \E k \in 1..Len(OrEmptyArray(initiative, "categories")) :
              initiative.categories[k] = filters.category

\* the initiative passes the search text: its name or its owner holds it
PassesSearch(initiative) ==
    \/ filters.search = << >>
    \/ HoldsWord(initiative.name, filters.search)
    \/ Has(initiative, "owner") /\ HoldsWord(initiative.owner, filters.search)

\* the initiative passes the three filters
PassesAll(initiative) == PassesDashboard(initiative) /\ PassesSearch(initiative)

\* C20 as stated: the projection is the initiatives of the collection, in
\* their order, that pass the status filter and the category filter.
C20_StatusAndCategory ==
    filtered # Null => filtered.returned = SelectSeq(initiatives, PassesDashboard)

\* the projection is the initiatives, in their order, that pass the three
\* filters, and the whole collection when no filter is set
C20_Projection ==
    filtered # Null =>
        /\ filtered.returned = SelectSeq(initiatives, PassesAll)
        /\ filters.search = << >> =>
               filtered.returned = SelectSeq(initiatives, PassesDashboard)
        /\ (filters.status = "all" /\ filters.category = "all"
              /\ filters.search = << >>) => filtered.returned = initiatives

\* the call that gives the projection leaves the collection as it was
C20_SourceKept ==
    (filtered = Null /\ filtered' # Null) => initiatives' = initiatives

\* C20 amended: the projection is the initiatives that pass the status
\* filter and the category filter and, when a search text is set, whose
\* name or owner holds the text in any case; it is the whole collection in
\* its order with no filter set, and the collection is not modified.
C20_DashboardFilter == [](C20_Projection) /\ [][C20_SourceKept]_vars

C20_Witness ==
    /\ filtered # Null
    /\ filters = [status |-> "Active", category |-> "Tech", search |-> << >>]
    /\ Len(initiatives) = MaxInitiatives
    /\ Len(filtered.returned) = 1
    /\ filtered.returned[1] = initiatives[MaxInitiatives]
    /\ \E i \in 1..Len(initiatives) :
           /\ StatusIs(initiatives[i], "Active")
           /\ ~Has(initiatives[i], "categories")

BadPayload(body) ==
    \/ ~Has(body, "initiatives")
    \/ body.initiatives.kind # "array"
    \/ body.initiatives.items = << >>
    \/ \E i \in 1..Len(body.initiatives.items) :
           LET element == body.initiatives.items[i]
           IN  \/ element = Null
               \/ ~Has(element, "name") \/ element.name = ""
               \/ ~Has(element, "status") \/ element.status = ""

\* C22: the response to a request with a bad payload is 400 with a body
\* {success: false, error}, sent before anything is logged or generated;
\* a success response is sent only for a payload that is not bad, with
\* receivedCount the length of initiatives.
C22_RelayValidation ==
    response # Null =>
        /\ BadPayload(request) =>
               /\ response.status = 400
               /\ response.body.success = FALSE
               /\ Has(response.body, "error")
               /\ relayLog = << >>
        /\ response.body.success =>
               /\ ~BadPayload(request)
               /\ response.body.receivedCount = Len(request.initiatives.items)

(***************************************************************************)
(* Properties of the two backends.                                         *)
(***************************************************************************)
\* the fields of an initiative that the core works with
CoreFields ==
    {"id", "name", "owner", "status", "startDate", "targetDate",
     "categories", "tags", "phases", "keyInitiative"}

\* two results for one record: both null, or two objects with the same
\* fields and the same values of the fields of the core
SameResult(a, b) ==
    IF a = Null \/ b = Null THEN a = b
    ELSE /\ DOMAIN a = DOMAIN b
         /\ \A f \in CoreFields : SameProp(a, b, f)

\* C23: every store call resolves on the local backend to what it resolves
\* to on the cloud backend: null for an absent record on both, the same
\* fields of a record read back, with the same values of id, name, owner,
\* status, dates, categories, tags, phases and keyInitiative.
C23_BackendsAgree ==
    answer # Null =>
        CASE answer.op = "getInitiativeById" ->
                 SameResult(answer.local, answer.cloud)
          [] answer.op = "getAllInitiatives" ->
                 /\ Len(answer.local.array) = Len(answer.cloud.array)
                 /\ \A i \in 1..Len(answer.local.array) :
                        SameResult(answer.local.array[i], answer.cloud.array[i])
          [] answer.op = "saveInitiative" ->
                 \A f \in CoreFields :
                     SameProp(answer.local, answer.cloud, f)
          [] OTHER -> answer.local = answer.cloud

\* C24: when migrateToSupabase has completed, every initiative and every
\* snapshot of the local database is in the cloud database and the counts
\* it returned are the numbers of local initiatives and local snapshots;
\* when it has thrown 'Supabase not configured' the cloud database is as
\* it was.
C24_MigrationCopies ==
    LET localIds == {id \in IdSet : indexedDb.initiatives[id] # Null}
    IN  /\ migration.pc = "done" =>
               /\ \A id \in localIds : supabase.initiatives[id] # Null
               /\ \A i \in 1..Len(indexedDb.snapshots) :
                      \E j \in 1..Len(supabase.snapshots) :
                          /\ supabase.snapshots[j].note =
                                 indexedDb.snapshots[i].note
                          /\ supabase.snapshots[j].data =
                                 indexedDb.snapshots[i].data.json
               /\ migration.result.initiatives = Cardinality(localIds)
               /\ migration.result.snapshots = Len(indexedDb.snapshots)
        /\ (migration.pc = "rejected"
               /\ migration.error = "Supabase not configured") =>
               /\ ~useSupabase
               /\ supabase = migration.before

(***************************************************************************)
(* Properties of the markers of the evaluator.                             *)
(***************************************************************************)
\* the positions of a collection whose initiative carries _riskInfo
WithRiskInfo(list) == {i \in 1..Len(list) : Has(list[i], "_riskInfo")}

\* C25: after a detectRisks pass every initiative of the collection has
\* _riskInfo iff one of its phases is overdue or approaching at the time of
\* the pass, and then with the overdue and the approaching phases of this
\* pass; the warnings are one per initiative that has _riskInfo.
C25_RiskInfoFresh ==
    [][PassStarts =>
          /\ \A i \in 1..Len(initiatives') :
                 LET phases == OrEmptyArray(initiatives'[i], "phases")
                     overdue == overduePhases(phases, now)
                     approaching == approachingPhases(phases, now)
                 IN  /\ Has(initiatives'[i], "_riskInfo") <=>
                            (overdue # << >> \/ approaching # << >>)
                     /\ Has(initiatives'[i], "_riskInfo") =>
                            /\ OverdueOf(initiatives'[i]) = overdue
                            /\ ApproachingOf(initiatives'[i]) = approaching
          /\ Len(riskResult'.warnings) = Cardinality(WithRiskInfo(initiatives'))
          /\ {riskResult'.warnings[w].initiative :
                  w \in 1..Len(riskResult'.warnings)}
                 = WithRiskInfo(initiatives')]_vars

\* C26: no record of the store, read back with getInitiativeById or in the
\* array of getAllInitiatives, has an _autoRisk or a _riskInfo field.
C26_MarkersNotStored ==
    /\ \A id \in IdSet :
           LET read == getInitiativeById(useSupabase, db[id])
           IN  read # Null =>
                   ~Has(read, "_autoRisk") /\ ~Has(read, "_riskInfo")
    /\ \A all \in getAllInitiatives(useSupabase, db) :
           \A i \in 1..Len(all) :
               ~Has(all[i], "_autoRisk") /\ ~Has(all[i], "_riskInfo")

(***************************************************************************)
(* Properties of the periodic evaluation.                                  *)
(***************************************************************************)
\* the positions of the events of a type
EventsOf(type) ==
    {k \in 1..Len(detection.events) : detection.events[k].type = type}

\* the passes started: at activation, and by the interval
StartedAs(kind) ==
    {k \in EventsOf("start") : detection.events[k].kind = kind}

\* the events so far are those of one pass at activation and one pass per
\* tick of the interval, and every pass that has ended has called
\* showRiskNotifications and then onRisksDetected with the result of
\* detectRisks on what it read when it started
C27_PassesInOrder ==
    LET ev == detection.events
    IN  /\ detection.interval # "none" =>
               /\ ev # << >>
               /\ StartedAs("immediate") = {1}
               /\ Cardinality(StartedAs("periodic")) = detection.ticks
        /\ \A k \in EventsOf("onRisksDetected") :
               /\ k - 1 \in EventsOf("showRiskNotifications")
               /\ ev[k - 1].pass = ev[k].pass
               /\ ev[k - 1].warnings = ev[k].result.warnings
               /\ \E j \in EventsOf("start") :
                      /\ j < k - 1
                      /\ ev[j].pass = ev[k].pass
                      /\ ev[k].result.warnings =
                             detectRisks(ev[j].read, now).warnings
                      /\ ev[k].result.autoUpdatedCount =
                             detectRisks(ev[j].read, now).autoUpdatedCount
        /\ \A k \in EventsOf("showRiskNotifications") :
               k + 1 \in EventsOf("onRisksDetected")
        /\ \A p \in 1..Len(detection.running) :
               ENABLED (PassEnds(p) \/ \E ok \in BOOLEAN : PassSave(p, ok))

\* C27: startRiskDetection starts a pass at once and one at every tick of
\* the interval; a pass reads the collection as it is when the pass
\* starts, and calls showRiskNotifications and then onRisksDetected with
\* its result; after stopRiskDetection no pass starts, and a pass in
\* flight can still go on to its end.
C27_PeriodicPasses ==
    /\ []C27_PassesInOrder
    /\ [][/\ detection.stopped => EventsOf("start")' = EventsOf("start")
          /\ \A k \in EventsOf("start")' \ EventsOf("start") :
                 detection'.events[k].read = initiatives]_vars

C27_Witness ==
    /\ detection.stopped
    /\ detection.ticks > 0
    /\ detection.running = << >>
    /\ \E k \in EventsOf("onRisksDetected") :
           /\ detection.events[k].result.autoUpdatedCount > 0
           /\ \E j \in EventsOf("start") :
                  /\ detection.events[j].kind = "periodic"
                  /\ j < k
    /\ Len(detection.events) = 3 * Cardinality(EventsOf("start"))

\* the status in memory of the initiative with an id is Risk and the
\* status of its stored record is not
RiskNotStored(id) ==
    /\ db[id] # Null
    /\ ~StatusIs(db[id], "Risk")
    /\ \E i \in 1..Len(initiatives) :
           /\ initiatives[i].id = id
           /\ StatusIs(initiatives[i], "Risk")

\* C28: with passes that keep running and a store that accepts writes in
\* the end, no initiative stays for ever with the status Risk in memory
\* and another status in the store.
C28_FlipPersisted == \A id \in RiskIds : []<>(~RiskNotStored(id))

\* C29: a save of the evaluator that succeeds leaves every field of the
\* stored record but the status as it was in the store, whatever has been
\* written to the record since the collection was loaded.
C29_OnlyStatusWritten ==
    [][(Len(riskCalls') = Len(riskCalls) + 1 /\ riskCalls'[Len(riskCalls')].ok)
          => LET id == riskCalls'[Len(riskCalls')].id
                 before == getInitiativeById(useSupabase, db[id])
                 after == getInitiativeById(useSupabase, db'[id])
             IN  /\ before # Null
                 /\ \A f \in CoreFields \ {"status"} :
                        SameProp(before, after, f)]_vars

(***************************************************************************)
(* Properties of the collection in memory.                                 *)
(***************************************************************************)
\* the positions of the collection whose entry has an id
PositionsOf(id) == {k \in 1..Len(initiatives) : initiatives[k].id = id}

\* no two entries of the collection have one id
C30_IdsUnique ==
    \A a, b \in 1..Len(initiatives) :
        a # b => initiatives[a].id # initiatives[b].id

\* an update puts the initiative where the entry with its id was, with
\* the other entries and the length as they were, or at the end when the
\* id was not there
C30_UpdateInPlace ==
    \A initiative \in StateRecords :
        UpdateInState(initiative) =>
            IF PositionsOf(initiative.id) = {}
            THEN initiatives' = Append(initiatives, initiative)
            ELSE /\ Len(initiatives') = Len(initiatives)
                 /\ \A k \in 1..Len(initiatives) :
                        initiatives'[k] = IF k \in PositionsOf(initiative.id)
                                          THEN initiative ELSE initiatives[k]

\* a removal leaves the entries with another id, each after the entries
\* it was after
C30_RemoveExactly ==
    \A id \in IdSet :
        RemoveFromState(id) =>
            LET keep == (1..Len(initiatives)) \ PositionsOf(id)
            IN  /\ Len(initiatives') = Cardinality(keep)
                /\ \A k \in keep :
                       initiatives'[Cardinality({j \in keep : j <= k})]
                           = initiatives[k]

\* C30: from a collection with distinct ids, updateInitiativeInState and
\* removeInitiativeFromState keep the ids distinct; an update replaces in
\* place or appends, and a removal takes out the entries with the id and
\* keeps the others in order.
C30_CollectionKept ==
    /\ []C30_IdsUnique
    /\ [][C30_UpdateInPlace /\ C30_RemoveExactly]_vars

\* the second initiative was updated in place and the first was removed
\* and added again, with another status
C30_Witness ==
    /\ Len(initiatives) = Len(Ids)
    /\ initiatives[1] = [id |-> Ids[2], name |-> "Web", status |-> "Risk"]
    /\ initiatives[Len(Ids)] =
           [id |-> Ids[1], name |-> "Web", status |-> "Completed"]

====
